---- MODULE Spec2Model ----
(***************************************************************************)
(* Verification model of the EDI compliance rules engine:                  *)
(*   - ErrorCollector / ValidationResult   (src/src/validator)             *)
(*   - RuleLoader merge and load           (src/src/rules/rule_loader.py)  *)
(*   - ValidationEngine and the four rule evaluators                       *)
(*                                                                         *)
(* Encoding of Python values:                                              *)
(*   - a str that the code inspects character by character (element       *)
(*     values, segment ids) is a sequence of one-character strings;        *)
(*   - a str that is only compared (rule ids, severities, category names)  *)
(*     is a TLA+ string;                                                   *)
(*   - a dict is a function whose DOMAIN is the set of keys present;       *)
(*   - None is NoneStr / NoneInt where a str / an int is expected.         *)
(***************************************************************************)
EXTENDS Integers, Sequences, FiniteSets, TLC

VARIABLES
    collector,      \* SpecCollector: one ErrorCollector instance
    last_add,       \* SpecCollector: arguments of the last add_error / "clear" / "none"
    core_rules,     \* RuleLoader.core_rules      (loaded tier, shared with the merge input)
    document_rules, \* RuleLoader.document_rules
    retailer_rules, \* RuleLoader.retailer_rules
    merged_rules,   \* RuleLoader.merged_rules
    call,           \* last loader call: its arguments and its outcome
    heap,           \* Python objects the loader holds by reference (rule dicts, validations dicts)
    parsed_edi,     \* SpecValidate: the document handed to validate
    rules,          \* SpecValidate: the ruleset handed to validate
    collectors,     \* heap of ErrorCollector instances created by validate
    engine,         \* ValidationEngine instance: [error_collector |-> ref]
    run,            \* the validate call in progress: pc, locals, result
    threads,        \* SpecInterleaved: the validate calls in progress on one engine, one per caller
    edi_text,       \* SpecParse: the text handed to the parser
    parser,         \* EDIParser instance: raw_text, segments, parsed_data
    parse_call      \* last parser call: its outcome and what it returned

collectorVars == <<collector, last_add>>
loaderVars    == <<core_rules, document_rules, retailer_rules, merged_rules, call, heap>>
validateVars  == <<parsed_edi, rules, collectors, engine, run, threads>>
parserVars    == <<edi_text, parser, parse_call>>
vars == <<collector, last_add, core_rules, document_rules, retailer_rules,
          merged_rules, call, heap, parsed_edi, rules, collectors, engine, run,
          threads, edi_text, parser, parse_call>>

(***************************************************************************)
(* Generic helpers                                                         *)
(***************************************************************************)
NoneStr == <<"None">>
NoneInt == -1

Has(d, k) == k \in DOMAIN d
Get(d, k, default) == IF k \in DOMAIN d THEN d[k] ELSE default

RECURSIVE SeqsUpTo(_, _)
SeqsUpTo(S, n) ==
    IF n = 0 THEN {<<>>}
    ELSE LET shorter == SeqsUpTo(S, n - 1)
         IN  shorter \cup {Append(s, x) : s \in {t \in shorter : Len(t) = n - 1}, x \in S}

Range(s) == {s[i] : i \in DOMAIN s}
IsPrefix(s, t) == Len(s) <= Len(t) /\ SubSeq(t, 1, Len(s)) = s

\* str.upper() on the severity spellings the model feeds to the collector
Upper(s) ==
    CASE s = "error"   -> "ERROR"
      [] s = "Error"   -> "ERROR"
      [] s = "warning" -> "WARNING"
      [] s = "Warning" -> "WARNING"
      [] s = "info"    -> "INFO"
      [] s = "fatal"   -> "FATAL"
      [] OTHER         -> s

(***************************************************************************)
(* ErrorCollector and ValidationError  (error_collector.py)                *)
(***************************************************************************)
\* ValidationError.__init__: the severity is stored upper-cased
ValidationError(rule_id, severity, message, segment_id, line_number, element_position, expected_value, actual_value, context) ==
    [rule_id          |-> rule_id,
     severity         |-> Upper(severity),
     message          |-> message,
     segment_id       |-> segment_id,
     line_number      |-> line_number,
     element_position |-> element_position,
     expected_value   |-> expected_value,
     actual_value     |-> actual_value,
     context          |-> context]

\* ErrorCollector.__init__
NewCollector == [errors |-> <<>>, warnings |-> <<>>, info |-> <<>>]

add_error_bug(c, err, severity) ==
    IF Upper(severity) = "ERROR" \/ Upper(severity) = "WARNING"
    THEN [c EXCEPT !.errors = Append(@, err)]
    ELSE [c EXCEPT !.info = Append(@, err)]

\* the issue is put at the head of its list instead of the end
add_error_prepend(c, err, severity) ==
    IF Upper(severity) = "ERROR" THEN [c EXCEPT !.errors = <<err>> \o @]
    ELSE IF Upper(severity) = "WARNING" THEN [c EXCEPT !.warnings = <<err>> \o @]
    ELSE [c EXCEPT !.info = <<err>> \o @]

\* ErrorCollector.add_error: c is the collector, err the ValidationError built
\* from the arguments, severity the severity argument as passed
add_error(c, err, severity) ==
    IF Upper(severity) = "ERROR" THEN [c EXCEPT !.errors = Append(@, err)]
    ELSE IF Upper(severity) = "WARNING" THEN [c EXCEPT !.warnings = Append(@, err)]
    ELSE [c EXCEPT !.info = Append(@, err)]

get_all_errors(c) == c.errors \o c.warnings \o c.info
has_errors(c) == Len(c.errors) > 0
has_warnings(c) == Len(c.warnings) > 0
collector_len(c) == Len(get_all_errors(c))
clear(c) == [c EXCEPT !.errors = <<>>, !.warnings = <<>>, !.info = <<>>]

\* ValidationResult wraps a collector; only the collector decides compliance
ValidationResult(c) == [error_collector |-> c]
is_compliant(result) == ~has_errors(result.error_collector)
error_count(result) == Len(result.error_collector.errors)
warning_count(result) == Len(result.error_collector.warnings)
total_issues(result) == collector_len(result.error_collector)

(***************************************************************************)
(* RuleLoader  (rule_loader.py)                                            *)
(*                                                                         *)
(* Rule dicts and their nested "validations" dicts are mutable Python      *)
(* objects: they live in heap and are held by reference (an index of       *)
(* heap).  A tier is a dict from category name to a list of rule refs.     *)
(***************************************************************************)
rule_categories == <<"required_segments", "element_rules", "conditional_rules", "cross_segment_rules">>
optional_categories == <<"segment_sequences", "business_rules">>

\* Python truthiness of a dict
Truthy(d) == DOMAIN d # {}

\* the content of a rule object, its nested validations dict inlined
Deref(h, ref) ==
    LET o == h[ref]
    IN  IF Has(o, "validations")
        THEN [k \in DOMAIN o \ {"validations"} |-> o[k]] @@ [vals |-> h[o.validations]]
        ELSE o

DerefAll(h, refs) == [i \in DOMAIN refs |-> Deref(h, refs[i])]

\* copy.deepcopy(rule) with a shared nested dict: the rule dict is copied, its
\* validations dict is not
shallowcopy(h, ref) ==
    [heap |-> Append(h, h[ref]), ref |-> Len(h) + 1]

\* copy.deepcopy(rule): a new rule object and, when the rule has one, a new
\* validations object
deepcopy(h, ref) ==
    IF Has(h[ref], "validations")
    THEN [heap |-> h \o <<h[h[ref].validations], [h[ref] EXCEPT !.validations = Len(h) + 1]>>,
          ref |-> Len(h) + 2]
    ELSE [heap |-> Append(h, h[ref]), ref |-> Len(h) + 1]

\* category_rules[rule_id] = ref on an insertion-ordered dict, kept as a
\* sequence of <<rule_id, ref>>: an existing key keeps its position
DictAppend(cr, rule_id, ref) == Append(cr, <<rule_id, ref>>)

DictPut(cr, rule_id, ref) ==
    IF \E i \in DOMAIN cr : cr[i][1] = rule_id
    THEN [i \in DOMAIN cr |-> IF cr[i][1] = rule_id THEN <<rule_id, ref>> ELSE cr[i]]
    ELSE Append(cr, <<rule_id, ref>>)

DictValues(cr) == [i \in DOMAIN cr |-> cr[i][2]]

AppliesAlways(rule, doc_type) == TRUE

\* rule_loader.py 248-249: the retailer rule's applies_to_doc_types test
Applies(rule, doc_type) ==
    \/ Get(rule, "applies_to_doc_types", <<>>) = <<>>
    \/ doc_type \in Range(rule.applies_to_doc_types)

\* category_rules[rule_id] = deepcopy(rule): st is [heap, cr], c the copy
PutCopy(st, rule_id, c) == [heap |-> c.heap, cr |-> DictPut(st.cr, rule_id, c.ref)]

\* the body of one "for rule in tier.get(category, [])" loop of
\* _merge_rulesets; is_retailer selects the loop with the applies_to test
MergeRule(st, ref, doc_type, is_retailer) ==
    IF Get(st.heap[ref], "rule_id", "") # ""
       /\ (is_retailer => Applies(st.heap[ref], doc_type))
    THEN PutCopy(st, st.heap[ref].rule_id, deepcopy(st.heap, ref))
    ELSE st

RECURSIVE MergeTier(_, _, _, _, _)
\* the loop leaves at the first rule without rule_id instead of skipping it
MergeTier_break(st, refs, i, doc_type, is_retailer) ==
    IF i > Len(refs) \/ Get(st.heap[refs[i]], "rule_id", "") = "" THEN st
    ELSE MergeTier(MergeRule(st, refs[i], doc_type, is_retailer), refs, i + 1,
                   doc_type, is_retailer)

\* one "for rule in tier.get(category, [])" loop of _merge_rulesets, from
\* index i on
MergeTier(st, refs, i, doc_type, is_retailer) ==
    IF i > Len(refs) THEN st
    ELSE MergeTier(MergeRule(st, refs[i], doc_type, is_retailer), refs, i + 1,
                   doc_type, is_retailer)

\* the document tier merged before the core tier
MergeCategory_swapped(h, core, doc, ret, category, doc_type) ==
    MergeTier(
        MergeTier(
            MergeTier([heap |-> h, cr |-> <<>>], Get(doc, category, <<>>), 1, doc_type, FALSE),
            Get(core, category, <<>>), 1, doc_type, FALSE),
        Get(ret, category, <<>>), 1, doc_type, TRUE)

\* the body of "for category in rule_categories" for one category: the core
\* loop, then the document loop, then the retailer loop on one category_rules
MergeCategory(h, core, doc, ret, category, doc_type) ==
    MergeTier(
        MergeTier(
            MergeTier([heap |-> h, cr |-> <<>>], Get(core, category, <<>>), 1, doc_type, FALSE),
            Get(doc, category, <<>>), 1, doc_type, FALSE),
        Get(ret, category, <<>>), 1, doc_type, TRUE)

\* merged[category] = list(category_rules.values())
CategoryDone(mc, m) == [heap |-> m.heap, cats |-> Append(mc.cats, DictValues(m.cr))]

\* "for category in rule_categories" from category k on: mc is [heap, cats],
\* cats the merged lists of the categories done
RECURSIVE MergeCategories(_, _, _, _, _, _)
MergeCategories(mc, core, doc, ret, k, doc_type) ==
    IF k > Len(rule_categories) THEN mc
    ELSE MergeCategories(
             CategoryDone(mc, MergeCategory(mc.heap, core, doc, ret, rule_categories[k], doc_type)),
             core, doc, ret, k + 1, doc_type)

\* the rule refs _apply_overrides visits, in the order of ruleset.keys()
\* (ruleset_info is not a list and is skipped)
OverrideTargets(ruleset) ==
    ruleset.required_segments \o ruleset.element_rules
        \o ruleset.conditional_rules \o ruleset.cross_segment_rules

\* rule["severity"] = value
SetSeverity(rule, value) ==
    [k \in DOMAIN rule \cup {"severity"} |-> IF k = "severity" THEN value ELSE rule[k]]

\* the directive applied to every rule, whatever its rule_id
ApplyOverrideToRule_any(h, ref, override) ==
    IF Get(override, "override_type", "") = "severity_escalation"
    THEN IF Has(override, "new_severity")
         THEN [heap |-> [h EXCEPT ![ref] = SetSeverity(h[ref], override.new_severity)],
               raised |-> FALSE]
         ELSE [heap |-> h, raised |-> TRUE]
    ELSE IF Get(override, "override_type", "") = "add_allowed_value"
            /\ Has(h[ref], "validations")
            /\ Has(h[h[ref].validations], "allowed_values")
    THEN [heap |-> [h EXCEPT ![h[ref].validations].allowed_values =
                             @ \o Get(override, "new_allowed_values", <<>>)],
          raised |-> FALSE]
    ELSE [heap |-> h, raised |-> FALSE]

\* the effect of one override directive on one rule object; raised when
\* override["new_severity"] is missing
ApplyOverrideToRule(h, ref, override) ==
    IF Get(h[ref], "rule_id", "") # Get(override, "rule_id", "")
    THEN [heap |-> h, raised |-> FALSE]
    ELSE IF Get(override, "override_type", "") = "severity_escalation"
    THEN IF Has(override, "new_severity")
         THEN [heap |-> [h EXCEPT ![ref] = SetSeverity(h[ref], override.new_severity)],
               raised |-> FALSE]
         ELSE [heap |-> h, raised |-> TRUE]
    ELSE IF Get(override, "override_type", "") = "add_allowed_value"
            /\ Has(h[ref], "validations")
            /\ Has(h[h[ref].validations], "allowed_values")
    THEN [heap |-> [h EXCEPT ![h[ref].validations].allowed_values =
                             @ \o Get(override, "new_allowed_values", <<>>)],
          raised |-> FALSE]
    ELSE [heap |-> h, raised |-> FALSE]

\* the loops over the categories and rules for one directive, from target j on
RECURSIVE ApplyOverrideToRules(_, _, _, _)
ApplyOverrideToRules(st, refs, j, override) ==
    IF j > Len(refs) \/ st.raised THEN st
    ELSE ApplyOverrideToRules(ApplyOverrideToRule(st.heap, refs[j], override),
                              refs, j + 1, override)

\* "for override in overrides" from directive i on; a directive without
\* rule_id or override_type is skipped
RECURSIVE ApplyOverridesFrom(_, _, _, _)
ApplyOverridesFrom(st, refs, overrides, i) ==
    IF i > Len(overrides) \/ st.raised THEN st
    ELSE ApplyOverridesFrom(
             IF Get(overrides[i], "rule_id", "") = ""
                \/ Get(overrides[i], "override_type", "") = ""
             THEN st
             ELSE ApplyOverrideToRules(st, refs, 1, overrides[i]),
             refs, overrides, i + 1)

\* RuleLoader._apply_overrides
apply_overrides(h, ruleset, overrides) ==
    ApplyOverridesFrom([heap |-> h, raised |-> FALSE], OverrideTargets(ruleset), overrides, 1)

\* "rulesets_applied" of the merged ruleset_info
RulesetsApplied(core, doc, ret, doc_type, retailer) ==
    (IF Truthy(core) THEN << <<"x12_core">> >> ELSE <<>>)
    \o (IF Truthy(doc) THEN << <<"doc_", doc_type>> >> ELSE <<>>)
    \o (IF Truthy(ret) THEN << <<"retailer_", retailer>> >> ELSE <<>>)

\* "Add optional categories if present": the doc list is taken as is, the
\* retailer list is concatenated; the rule objects are shared, not copied
OptionalCategory(doc, ret, category) ==
    (IF Has(doc, category) THEN doc[category] ELSE <<>>)
    \o (IF Has(ret, category) THEN ret[category] ELSE <<>>)

OptionalCategories(doc, ret) ==
    [k \in {optional_categories[n] : n \in DOMAIN optional_categories}
            \cap (DOMAIN doc \cup DOMAIN ret) |-> OptionalCategory(doc, ret, k)]

\* the merged dict before the overrides: ruleset_info and the four categories
MergedDict(cats, core, doc, ret, doc_type, retailer) ==
    [ruleset_info |->
        [name |-> <<"Merged Ruleset: ", doc_type>>,
         doc_type |-> doc_type,
         retailer |-> IF retailer # NoneStr /\ retailer # <<>> THEN retailer ELSE <<"none">>,
         rulesets_applied |-> RulesetsApplied(core, doc, ret, doc_type, retailer)],
     required_segments |-> cats[1],
     element_rules |-> cats[2],
     conditional_rules |-> cats[3],
     cross_segment_rules |-> cats[4]]

\* the returned ruleset: ov is the outcome of the overrides
MergeResult(ov, merged, doc, ret) ==
    [heap |-> ov.heap, raised |-> ov.raised, merged |-> merged @@ OptionalCategories(doc, ret)]

\* "Apply retailer overrides" and "Add optional categories if present"
MergeFinish(h, merged, doc, ret) ==
    MergeResult(IF Truthy(ret) /\ Has(ret, "overrides")
                THEN apply_overrides(h, merged, ret.overrides)
                ELSE [heap |-> h, raised |-> FALSE],
                merged, doc, ret)

\* the categories merged (mc), then the overrides and the optional categories
MergeAfterCategories(mc, core, doc, ret, doc_type, retailer) ==
    MergeFinish(mc.heap, MergedDict(mc.cats, core, doc, ret, doc_type, retailer), doc, ret)

\* RuleLoader._merge_rulesets: the new heap, the merged ruleset and whether
\* the call raised (no ruleset is returned then)
_merge_rulesets(h, core, doc, ret, doc_type, retailer) ==
    MergeAfterCategories(MergeCategories([heap |-> h, cats |-> <<>>], core, doc, ret, 1, doc_type),
                         core, doc, ret, doc_type, retailer)

(***************************************************************************)
(* Idle values of the variables a specification does not use               *)
(***************************************************************************)
NoCall == [op |-> "none", doc_type |-> <<>>, retailer |-> NoneStr,
           outcome |-> "none", error |-> <<>>, n |-> 0]
NoRuleset == <<>>

CollectorIdle ==
    /\ collector = NewCollector
    /\ last_add = [op |-> "none", severity |-> "", rule_id |-> ""]

LoaderIdle ==
    /\ core_rules = NoRuleset
    /\ document_rules = NoRuleset
    /\ retailer_rules = NoRuleset
    /\ merged_rules = NoRuleset
    /\ call = NoCall
    /\ heap = <<>>

ValidateIdle ==
    /\ parsed_edi = <<>>
    /\ rules = <<>>
    /\ collectors = <<>>
    /\ engine = [error_collector |-> 0]
    /\ run = [pc |-> "idle", k |-> 0, validators |-> 0, results |-> <<>>]
    /\ threads = <<>>

\* EDIParser.__init__
NewParser == [raw_text |-> <<>>, segments |-> <<>>, parsed_data |-> <<>>]

NoParse == [op |-> "none", outcome |-> "none", error |-> "", returned |-> <<>>]

ParserIdle ==
    /\ edi_text = <<>>
    /\ parser = NewParser
    /\ parse_call = NoParse

(***************************************************************************)
(* SpecCollector: any sequence of add_error / clear on one collector       *)
(***************************************************************************)
MaxIssues == 4

SeverityInputs == {"ERROR", "error", "WARNING", "Warning", "INFO", "info", "fatal"}
RuleIdInputs == {"R1", "R2"}

AddError(rule_id, severity) ==
    /\ collector_len(collector) < MaxIssues
    /\ collector' = add_error(collector,
                              ValidationError(rule_id, severity, <<"msg">>, NoneStr,
                                              NoneInt, NoneInt, NoneStr, NoneStr, <<>>),
                              severity)
    /\ last_add' = [op |-> "add_error", severity |-> severity, rule_id |-> rule_id]
    /\ UNCHANGED <<loaderVars, validateVars, parserVars>>

Clear ==
    /\ collector_len(collector) > 0
    /\ collector' = clear(collector)
    /\ last_add' = [op |-> "clear", severity |-> "", rule_id |-> ""]
    /\ UNCHANGED <<loaderVars, validateVars, parserVars>>

InitCollector == CollectorIdle /\ LoaderIdle /\ ValidateIdle /\ ParserIdle

NextCollector ==
    \/ \E r \in RuleIdInputs, s \in SeverityInputs : AddError(r, s)
    \/ Clear

SpecCollector == InitCollector /\ [][NextCollector]_vars

\* C1: is_compliant() is true exactly when error_count() = 0, and an add_error
\* of a WARNING or INFO issue changes neither is_compliant() nor error_count().
C1_ComplianceIffNoErrors ==
    /\ [](is_compliant(ValidationResult(collector))
            <=> error_count(ValidationResult(collector)) = 0)
    /\ [][ (last_add'.op = "add_error" /\ Upper(last_add'.severity) \in {"WARNING", "INFO"})
             => /\ is_compliant(ValidationResult(collector'))
                    = is_compliant(ValidationResult(collector))
                /\ error_count(ValidationResult(collector'))
                    = error_count(ValidationResult(collector)) ]_vars

\* a WARNING was just added to a collector that also holds INFO issues and the
\* result is still compliant
C1_Witness ==
    /\ last_add.op = "add_error"
    /\ Upper(last_add.severity) = "WARNING"
    /\ Len(collector.warnings) > 0
    /\ Len(collector.info) > 0
    /\ is_compliant(ValidationResult(collector))

(***************************************************************************)
(* SpecMerge: _merge_rulesets on three loaded tiers                        *)
(***************************************************************************)
MaxRules == 3       \* rules in the three tiers together
MaxOverrides == 1   \* override directives of the retailer tier

D850 == <<"8", "5", "0">>
D856 == <<"8", "5", "6">>
D810 == <<"8", "1", "0">>
Walmart == <<"w", "a", "l", "m", "a", "r", "t">>
Amazon == <<"a", "m", "a", "z", "o", "n">>
Target == <<"t", "a", "r", "g", "e", "t">>
sN1 == <<"N", "1">>
sBEG == <<"B", "E", "G">>
sDTM == <<"D", "T", "M">>
vNE == <<"N", "E">>
vSA == <<"S", "A">>
v00 == <<"0", "0">>

\* rules a tier file may list: cat is the category array the rule sits in
CorePool ==
    { [cat |-> "required_segments",
       rule |-> [rule_id |-> "A", severity |-> "WARNING", segment_id |-> sN1,
                 min_occurrences |-> 1, description |-> "core A"]],
      [cat |-> "element_rules",
       rule |-> [rule_id |-> "E", severity |-> "WARNING", segment_id |-> sBEG,
                 element_position |-> [int |-> 1],
                 validations |-> [required |-> TRUE, allowed_values |-> <<v00>>]]] }

DocPool ==
    { [cat |-> "required_segments",
       rule |-> [rule_id |-> "A", severity |-> "ERROR", segment_id |-> sN1,
                 min_occurrences |-> 2]],
      [cat |-> "required_segments",
       rule |-> [severity |-> "ERROR", segment_id |-> sDTM, min_occurrences |-> 1]],
      [cat |-> "business_rules",
       rule |-> [rule_id |-> "BR", severity |-> "INFO"]] }

RetPool ==
    { [cat |-> "required_segments",
       rule |-> [rule_id |-> "A", severity |-> "INFO", segment_id |-> sN1,
                 max_occurrences |-> 1, applies_to_doc_types |-> <<D856>>]],
      [cat |-> "required_segments",
       rule |-> [rule_id |-> "A", severity |-> "INFO", segment_id |-> sDTM,
                 applies_to_doc_types |-> <<>>]],
      [cat |-> "element_rules",
       rule |-> [rule_id |-> "A", severity |-> "WARNING", segment_id |-> sN1,
                 element_position |-> [int |-> 1],
                 validations |-> [allowed_values |-> <<vNE>>],
                 applies_to_doc_types |-> <<D850, D810>>]] }

OverridePool ==
    { [rule_id |-> "A", override_type |-> "severity_escalation", new_severity |-> "ERROR"],
      [rule_id |-> "E", override_type |-> "add_allowed_value", new_allowed_values |-> <<vSA>>],
      [rule_id |-> "E", override_type |-> "severity_escalation"],
      [rule_id |-> "A"] }

\* json.load of one rule: a rule object and, when present, its validations object
AllocRule(h, content) ==
    IF Has(content, "validations")
    THEN LET h1 == Append(h, content.validations)
             h2 == Append(h1, [content EXCEPT !.validations = Len(h1)])
         IN  [heap |-> h2, ref |-> Len(h2)]
    ELSE [heap |-> Append(h, content), ref |-> Len(h) + 1]

\* json.load of a tier file listing the given entries: every category array
\* holds its rules in file order
RECURSIVE AllocTier(_, _, _, _)
AllocTier(h, entries, i, tier) ==
    IF i > Len(entries) THEN [heap |-> h, tier |-> tier]
    ELSE LET a == AllocRule(h, entries[i].rule)
             cat == entries[i].cat
             refs == Get(tier, cat, <<>>)
         IN  AllocTier(a.heap, entries, i + 1,
                       [k \in DOMAIN tier \cup {cat} |->
                           IF k = cat THEN Append(refs, a.ref) ELSE tier[k]])

EmptyTier(name) ==
    [ruleset_info |-> [name |-> name], required_segments |-> <<>>, element_rules |-> <<>>]

InitMerge ==
    /\ ParserIdle
    /\ CollectorIdle
    /\ ValidateIdle
    /\ \E with_retailer \in BOOLEAN :
       \E ce \in SeqsUpTo(CorePool, MaxRules) :
       \E de \in SeqsUpTo(DocPool, MaxRules - Len(ce)) :
       \E re \in SeqsUpTo(RetPool, IF with_retailer THEN MaxRules - Len(ce) - Len(de) ELSE 0) :
       \E ov \in SeqsUpTo(OverridePool, IF with_retailer THEN MaxOverrides ELSE 0) :
        /\ LET c == AllocTier(<<>>, ce, 1, EmptyTier(<<"x12_core">>))
               d == AllocTier(c.heap, de, 1, EmptyTier(<<"doc">>))
               r == AllocTier(d.heap, re, 1, EmptyTier(<<"retailer">>))
           IN  /\ heap = IF with_retailer THEN r.heap ELSE d.heap
               /\ core_rules = c.tier
               /\ document_rules = d.tier
               /\ retailer_rules =
                     IF ~with_retailer THEN <<>>
                     ELSE IF ov = <<>> THEN r.tier
                     ELSE r.tier @@ [overrides |-> ov]
    /\ merged_rules = <<>>
    /\ call = NoCall

\* load_rules line 152 on the tiers already loaded:
\* self.merged_rules = self._merge_rulesets(core, doc, ret, doc_type, retailer)
Merge(doc_type) ==
    /\ call.op = "none"
    /\ LET retailer == IF Truthy(retailer_rules) THEN Walmart ELSE NoneStr
           r == _merge_rulesets(heap, core_rules, document_rules, retailer_rules,
                                doc_type, retailer)
       IN  /\ heap' = r.heap
           /\ merged_rules' = IF r.raised THEN merged_rules ELSE r.merged
           /\ call' = [op |-> "merge", doc_type |-> doc_type, retailer |-> retailer,
                       outcome |-> IF r.raised THEN "raise" ELSE "ok",
                       error |-> IF r.raised THEN <<"KeyError", "new_severity">> ELSE <<>>,
                       n |-> call.n + 1]
    /\ UNCHANGED <<core_rules, document_rules, retailer_rules, collectorVars, validateVars, parserVars>>

\* the merge of [core, doc] merged again with the same document tier:
\* _merge_rulesets(merged, doc, {}, doc_type, None)
Remerge ==
    /\ call.op = "merge"
    /\ call.outcome = "ok"
    /\ ~Truthy(retailer_rules)
    /\ LET r == _merge_rulesets(heap, merged_rules, document_rules, <<>>,
                                call.doc_type, NoneStr)
       IN  /\ heap' = r.heap
           /\ merged_rules' = IF r.raised THEN merged_rules ELSE r.merged
           /\ call' = [call EXCEPT !.op = "remerge",
                                   !.outcome = IF r.raised THEN "raise" ELSE "ok",
                                   !.n = @ + 1]
    /\ UNCHANGED <<core_rules, document_rules, retailer_rules, collectorVars, validateVars, parserVars>>

NextMerge ==
    \/ \E dt \in {D850, D856} : Merge(dt)
    \/ Remerge

SpecMerge == InitMerge /\ [][NextMerge]_vars

(***************************************************************************)
(* Properties of the merge                                                 *)
(***************************************************************************)
CategorySet == {rule_categories[n] : n \in DOMAIN rule_categories}

MergeDone == call.op = "merge" /\ call.outcome = "ok"

\* the rule contents of one category of a tier or merged ruleset, in order
CategoryContent(h, ruleset, cat) == DerefAll(h, Get(ruleset, cat, <<>>))

\* the effective rule set: per category the rule contents in order
Effective(h, ruleset) == [cat \in CategorySet |-> CategoryContent(h, ruleset, cat)]

HasId(c) == Has(c, "rule_id") /\ c.rule_id # ""
IdsOf(contents) == {contents[i].rule_id : i \in {j \in DOMAIN contents : HasId(contents[j])}}

\* a retailer rule content restricted to document types other than dt
Excluded(c, dt) ==
    /\ Has(c, "applies_to_doc_types")
    /\ c.applies_to_doc_types # <<>>
    /\ \A n \in DOMAIN c.applies_to_doc_types : c.applies_to_doc_types[n] # dt

\* the rules of a content list that carry the id, in order
WithId(contents, id) ==
    SelectSeq(contents, LAMBDA c : HasId(c) /\ c.rule_id = id)

ApplicableRet(cat) ==
    SelectSeq(CategoryContent(heap, retailer_rules, cat),
              LAMBDA c : ~Excluded(c, call.doc_type))

Last(q) == q[Len(q)]

\* the rule of the highest-priority tier that defines the id in the category
\* (the last one listed when a tier lists the id twice)
TopRule(cat, id) ==
    LET r == WithId(ApplicableRet(cat), id)
        d == WithId(CategoryContent(heap, document_rules, cat), id)
        c == WithId(CategoryContent(heap, core_rules, cat), id)
    IN  IF r # <<>> THEN Last(r) ELSE IF d # <<>> THEN Last(d) ELSE Last(c)

UnionIds(cat) ==
    IdsOf(CategoryContent(heap, core_rules, cat))
        \cup IdsOf(CategoryContent(heap, document_rules, cat))
        \cup IdsOf(ApplicableRet(cat))

\* what one override directive does to a rule content, stated on contents
OverrideOnContent(c, ov) ==
    IF ~(Has(ov, "rule_id") /\ Has(ov, "override_type") /\ HasId(c) /\ c.rule_id = ov.rule_id)
    THEN c
    ELSE IF ov.override_type = "severity_escalation"
    THEN [k \in DOMAIN c \cup {"severity"} |-> IF k = "severity" THEN ov.new_severity ELSE c[k]]
    ELSE IF ov.override_type = "add_allowed_value" /\ Has(c, "vals")
            /\ Has(c.vals, "allowed_values")
    THEN [c EXCEPT !.vals.allowed_values = @ \o Get(ov, "new_allowed_values", <<>>)]
    ELSE c

RECURSIVE OverridesOnContent(_, _, _)
OverridesOnContent(c, ovs, i) ==
    IF i > Len(ovs) THEN c
    ELSE OverridesOnContent(OverrideOnContent(c, ovs[i]), ovs, i + 1)

RetOverrides == Get(retailer_rules, "overrides", <<>>)

\* C5 as stated: every id of a category has exactly one merged rule, whose
\* content is the rule of the highest-priority tier that defines the id.
C5_Original ==
    MergeDone =>
        \A cat \in CategorySet : \A id \in UnionIds(cat) :
            LET m == WithId(CategoryContent(heap, merged_rules, cat), id)
            IN  Len(m) = 1 /\ m[1] = TopRule(cat, id)

\* C5 amended: every id of a category has exactly one merged rule; its content
\* is the rule of the highest-priority tier that defines the id with the
\* retailer tier's override directives for that id applied to it (severity
\* replaced, allowed values appended); no field of a lower-tier rule survives.
C5_TopTierRuleWithOverrides ==
    MergeDone =>
        \A cat \in CategorySet : \A id \in UnionIds(cat) :
            LET m == WithId(CategoryContent(heap, merged_rules, cat), id)
            IN  Len(m) = 1 /\ m[1] = OverridesOnContent(TopRule(cat, id), RetOverrides, 1)

\* id A is defined by all three tiers, the retailer rule applies, and the
\* merged rule is the retailer rule: it lacks the fields only the core and
\* document rules carry
C5_Witness ==
    /\ MergeDone
    /\ "A" \in IdsOf(CategoryContent(heap, core_rules, "required_segments"))
    /\ "A" \in IdsOf(CategoryContent(heap, document_rules, "required_segments"))
    /\ "A" \in IdsOf(ApplicableRet("required_segments"))
    /\ LET m == WithId(CategoryContent(heap, merged_rules, "required_segments"), "A")
       IN  Len(m) = 1 /\ ~Has(m[1], "min_occurrences") /\ ~Has(m[1], "description")

\* the retailer tier without the rules restricted to other document types
StripExcluded(h, ret, dt) ==
    [k \in DOMAIN ret |->
        IF k \in CategorySet
        THEN SelectSeq(ret[k], LAMBDA ref : ~Excluded(Deref(h, ref), dt))
        ELSE ret[k]]

ExcludedRetRules(cat) ==
    SelectSeq(CategoryContent(heap, retailer_rules, cat),
              LAMBDA c : HasId(c) /\ Excluded(c, call.doc_type))

\* C6: a retailer rule whose non-empty applies_to_doc_types list does not
\* contain the current document type is absent from the merged ruleset, and
\* the merged ruleset is the one the merge gives without that rule: a
\* lower-tier rule with the same id stays in effect.
C6_ExcludedRetailerRulesAbsent ==
    MergeDone =>
        /\ \A cat \in CategorySet :
              LET m == CategoryContent(heap, merged_rules, cat)
                  x == ExcludedRetRules(cat)
              IN  /\ \A i \in DOMAIN m : ~Excluded(m[i], call.doc_type)
                  /\ \A j \in DOMAIN x :
                        x[j].rule_id \notin UnionIds(cat) => x[j].rule_id \notin IdsOf(m)
        /\ LET without == _merge_rulesets(heap, core_rules, document_rules,
                               StripExcluded(heap, retailer_rules, call.doc_type),
                               call.doc_type, call.retailer)
           IN  Effective(without.heap, without.merged) = Effective(heap, merged_rules)

\* the retailer tier restricts rule A to another document type, the document
\* tier defines A, and the merged A is the document rule (it has the
\* min_occurrences only the lower tiers carry)
C6_Witness ==
    /\ MergeDone
    /\ ExcludedRetRules("required_segments") # <<>>
    /\ WithId(ApplicableRet("required_segments"), "A") = <<>>
    /\ "A" \in IdsOf(CategoryContent(heap, document_rules, "required_segments"))
    /\ LET m == WithId(CategoryContent(heap, merged_rules, "required_segments"), "A")
       IN  Len(m) = 1 /\ Has(m[1], "min_occurrences") /\ m[1].min_occurrences = 2

\* C7: merging [core, doc] and merging the result again with the identical
\* document tier gives the same effective rule set as the first merge.
C7_RemergeIdempotent ==
    [][ (call'.op = "remerge" /\ ~Truthy(retailer_rules))
          => /\ call'.outcome = "ok"
             /\ Effective(heap', merged_rules') = Effective(heap, merged_rules) ]_vars

\* a re-merge without retailer tier of a ruleset in which the document rule A
\* has replaced the core rule A
C7_Witness ==
    /\ call.op = "remerge"
    /\ ~Truthy(retailer_rules)
    /\ "A" \in IdsOf(CategoryContent(heap, core_rules, "required_segments"))
    /\ "A" \in IdsOf(CategoryContent(heap, document_rules, "required_segments"))
    /\ Len(merged_rules.required_segments) >= 1

Perms(n) == {f \in [1..n -> 1..n] : \A a, b \in 1..n : f[a] = f[b] => a = b}

Permuted(tier, cat, f) ==
    IF Has(tier, cat) THEN [tier EXCEPT ![cat] = [i \in DOMAIN f |-> tier[cat][f[i]]]] ELSE tier

MergedIds(r, cat) == IdsOf(CategoryContent(r.heap, r.merged, cat))

\* C8: in each category the merged rule ids are the union of the ids of the
\* base tier, the document tier and the applicable retailer rules, whatever
\* the order of the rules inside a tier.
C8_MembershipIsUnion ==
    MergeDone =>
        \A cat \in CategorySet :
            /\ IdsOf(CategoryContent(heap, merged_rules, cat)) = UnionIds(cat)
            /\ \A f \in Perms(Len(Get(core_rules, cat, <<>>))) :
                  MergedIds(_merge_rulesets(heap, Permuted(core_rules, cat, f), document_rules,
                                retailer_rules, call.doc_type, call.retailer), cat)
                      = UnionIds(cat)
            /\ \A f \in Perms(Len(Get(document_rules, cat, <<>>))) :
                  MergedIds(_merge_rulesets(heap, core_rules, Permuted(document_rules, cat, f),
                                retailer_rules, call.doc_type, call.retailer), cat)
                      = UnionIds(cat)
            /\ \A f \in Perms(Len(Get(retailer_rules, cat, <<>>))) :
                  MergedIds(_merge_rulesets(heap, core_rules, document_rules,
                                Permuted(retailer_rules, cat, f), call.doc_type, call.retailer), cat)
                      = UnionIds(cat)

\* the document tier lists a rule without id before rule A, the retailer tier
\* holds a rule restricted to another document type, and the merged category
\* holds exactly the id the document tier defines
C8_Witness ==
    /\ MergeDone
    /\ Len(Get(document_rules, "required_segments", <<>>)) >= 2
    /\ ~HasId(CategoryContent(heap, document_rules, "required_segments")[1])
    /\ ExcludedRetRules("required_segments") # <<>>
    /\ IdsOf(CategoryContent(heap, merged_rules, "required_segments")) = {"A"}

TiersContent ==
    <<core_rules, document_rules, retailer_rules,
      [cat \in DOMAIN core_rules \ {"ruleset_info", "overrides"} |->
          DerefAll(heap, core_rules[cat])],
      [cat \in DOMAIN document_rules \ {"ruleset_info", "overrides"} |->
          DerefAll(heap, document_rules[cat])],
      [cat \in DOMAIN retailer_rules \ {"ruleset_info", "overrides"} |->
          DerefAll(heap, retailer_rules[cat])]>>

\* C10: merging and applying override directives leaves every rule of the
\* core, document and retailer tier inputs as it was; only merged copies change.
C10_TiersNotMutated ==
    [][ TiersContent' = TiersContent ]_vars

\* an add_allowed_value directive has extended the merged copy of rule E: its
\* allowed values differ from those of the tier rule it was copied from
C10_Witness ==
    /\ MergeDone
    /\ \E i \in DOMAIN RetOverrides : Get(RetOverrides[i], "override_type", "") = "add_allowed_value"
    /\ "E" \in UnionIds("element_rules")
    /\ LET m == WithId(CategoryContent(heap, merged_rules, "element_rules"), "E")
       IN  Len(m) = 1 /\ m[1] # TopRule("element_rules", "E")

(***************************************************************************)
(* SpecLoad: RuleLoader.load_rules and the single-tier loads on rule files *)
(***************************************************************************)
MaxCalls == 2

\* str.strip() and str.lower() on the characters the inputs use
IsSpace(ch) == ch \in {" ", "\n", "\r", "\t"}

RECURSIVE StripLeft(_)
StripLeft(t) == IF t # <<>> /\ IsSpace(Head(t)) THEN StripLeft(Tail(t)) ELSE t

RECURSIVE StripRight(_)
StripRight(t) ==
    IF t # <<>> /\ IsSpace(t[Len(t)]) THEN StripRight(SubSeq(t, 1, Len(t) - 1)) ELSE t

Strip(t) == StripRight(StripLeft(t))

LowerChar(ch) ==
    CASE ch = "W" -> "w"
      [] ch = "A" -> "a"
      [] ch = "C" -> "c"
      [] ch = "M" -> "m"
      [] ch = "E" -> "e"
      [] OTHER    -> ch

Lower(t) == [i \in DOMAIN t |-> LowerChar(t[i])]

\* list(rule_file_map.keys()) and list(retailer_file_map.keys())
rule_file_map == <<D850, D856, D810>>
retailer_file_map == <<Walmart, Amazon, Target>>

sISA == <<"I", "S", "A">>
sBSN == <<"B", "S", "N">>
sBIG == <<"B", "I", "G">>

\* the rule files: the rules named by tests/test_rules.py, one per file
CoreFile ==
    [name |-> <<"x12_core">>,
     entries |-> << [cat |-> "required_segments",
                     rule |-> [rule_id |-> "CORE_REQ_ISA", severity |-> "ERROR",
                               segment_id |-> sISA, min_occurrences |-> 1]] >>,
     overrides |-> <<>>]

DocFile(doc_type) ==
    [name |-> <<"doc_", doc_type>>,
     entries |-> << [cat |-> "required_segments",
                     rule |-> [rule_id |-> IF doc_type = D850 THEN "850_REQ_BEG"
                                           ELSE IF doc_type = D856 THEN "856_REQ_BSN"
                                           ELSE "810_REQ_BIG",
                               severity |-> "WARNING",
                               segment_id |-> IF doc_type = D850 THEN sBEG
                                              ELSE IF doc_type = D856 THEN sBSN ELSE sBIG,
                               min_occurrences |-> 1]] >>,
     overrides |-> <<>>]

RetailerFile(retailer) ==
    [name |-> <<"retailer_", retailer>>,
     entries |-> << [cat |-> "required_segments",
                     rule |-> [rule_id |-> IF retailer = Walmart THEN "WALMART_REQ_DTM"
                                           ELSE IF retailer = Amazon THEN "AMAZON_REQ_DTM"
                                           ELSE "TARGET_REQ_DTM",
                               severity |-> "ERROR", segment_id |-> sDTM,
                               min_occurrences |-> 1,
                               applies_to_doc_types |-> <<D850>>]] >>,
     overrides |-> IF retailer = Walmart
                   THEN << [rule_id |-> "850_REQ_BEG", override_type |-> "severity_escalation",
                            new_severity |-> "ERROR"] >>
                   ELSE <<>>]

\* the tier dict json.load builds from a file
TierOfFile(a, file) ==
    [heap |-> a.heap,
     tier |-> IF file.overrides = <<>> THEN a.tier ELSE a.tier @@ [overrides |-> file.overrides]]

\* RuleLoader._load_json_file
_load_json_file(h, file) ==
    TierOfFile(AllocTier(h, file.entries, 1, EmptyTier(file.name)), file)

\* the loader object: its four fields and the heap they point into
Loader == [heap |-> heap, core |-> core_rules, doc |-> document_rules,
           ret |-> retailer_rules, merged |-> merged_rules]

Returned(L, value) == [L |-> L, raised |-> FALSE, error |-> <<>>, value |-> value]
Raised(L, error) == [L |-> L, raised |-> TRUE, error |-> error, value |-> <<>>]

CoreLoaded(L, f) == Returned([L EXCEPT !.heap = f.heap, !.core = f.tier], f.tier)
DocLoaded(L, f) == Returned([L EXCEPT !.heap = f.heap, !.doc = f.tier], f.tier)
RetLoaded(L, f) == Returned([L EXCEPT !.heap = f.heap, !.ret = f.tier], f.tier)

\* RuleLoader.load_core_rules
load_core_rules(L) == CoreLoaded(L, _load_json_file(L.heap, CoreFile))

load_document_rules_fallback(L, doc_type) ==
    IF Strip(doc_type) \notin Range(rule_file_map)
    THEN DocLoaded(L, _load_json_file(L.heap, DocFile(D850)))
    ELSE DocLoaded(L, _load_json_file(L.heap, DocFile(Strip(doc_type))))

\* RuleLoader.load_document_rules
load_document_rules(L, doc_type) ==
    IF Strip(doc_type) \notin Range(rule_file_map)
    THEN Raised(L, <<"ValueError", "Unsupported document type: ", Strip(doc_type),
                     "Supported types: ", rule_file_map>>)
    ELSE DocLoaded(L, _load_json_file(L.heap, DocFile(Strip(doc_type))))

\* RuleLoader.load_retailer_rules
load_retailer_rules(L, retailer) ==
    IF Strip(Lower(retailer)) \notin Range(retailer_file_map)
    THEN Raised(L, <<"ValueError", "Unsupported retailer: ", Strip(Lower(retailer)),
                     "Supported retailers: ", retailer_file_map>>)
    ELSE RetLoaded(L, _load_json_file(L.heap, RetailerFile(Strip(Lower(retailer)))))

\* "if retailer:" is false for None and for the empty string
RetailerGiven(retailer) == retailer # NoneStr /\ retailer # <<>>

\* self.merged_rules = self._merge_rulesets(...); return self.merged_rules
MergedAssigned(L, m) ==
    IF m.raised
    THEN Raised([L EXCEPT !.heap = m.heap], <<"KeyError", "new_severity">>)
    ELSE Returned([L EXCEPT !.heap = m.heap, !.merged = m.merged], m.merged)

\* load_rules after the retailer tier (r3): the merge with the raw doc_type
\* and retailer arguments
LoadRulesMerge(r3, core, doc, doc_type, retailer) ==
    IF r3.raised THEN r3
    ELSE MergedAssigned(r3.L, _merge_rulesets(r3.L.heap, core, doc, r3.value, doc_type, retailer))

\* load_rules after the document tier (r2): ret = {} unless a retailer is given
LoadRulesRetailer(r2, core, doc_type, retailer) ==
    IF r2.raised THEN r2
    ELSE LoadRulesMerge(IF RetailerGiven(retailer) THEN load_retailer_rules(r2.L, retailer)
                        ELSE Returned(r2.L, <<>>),
                        core, r2.value, doc_type, retailer)

\* load_rules after the core tier (r1)
LoadRulesDocument(r1, doc_type, retailer) ==
    LoadRulesRetailer(load_document_rules(r1.L, doc_type), r1.value, doc_type, retailer)

\* RuleLoader.load_rules
load_rules(L, doc_type, retailer) ==
    LoadRulesDocument(load_core_rules(L), doc_type, retailer)

DocTypeInputs == {D850, <<" ", "8", "5", "0">>, D856, D810, <<"9", "9", "9">>, <<>>}
RetailerInputs ==
    {NoneStr, <<>>, Walmart, <<"W", "a", "l", "m", "a", "r", "t", " ">>, Amazon,
     <<"A", "C", "M", "E">>, <<" ">>}

\* the loader fields and the call record after a call with outcome res
Called(op, doc_type, retailer, res) ==
    /\ call.n < MaxCalls
    /\ heap' = res.L.heap
    /\ core_rules' = res.L.core
    /\ document_rules' = res.L.doc
    /\ retailer_rules' = res.L.ret
    /\ merged_rules' = res.L.merged
    /\ call' = [op |-> op, doc_type |-> doc_type, retailer |-> retailer,
                outcome |-> IF res.raised THEN "raise" ELSE "ok",
                error |-> res.error, n |-> call.n + 1, returned |-> res.value]
    /\ UNCHANGED <<collectorVars, validateVars, parserVars>>

LoadCoreRules == Called("load_core_rules", <<>>, NoneStr, load_core_rules(Loader))

LoadDocumentRules(doc_type) ==
    Called("load_document_rules", doc_type, NoneStr, load_document_rules(Loader, doc_type))

LoadRetailerRules(retailer) ==
    /\ retailer # NoneStr
    /\ Called("load_retailer_rules", <<>>, retailer, load_retailer_rules(Loader, retailer))

LoadRules(doc_type, retailer) ==
    Called("load_rules", doc_type, retailer, load_rules(Loader, doc_type, retailer))

InitLoad ==
    /\ ParserIdle
    /\ CollectorIdle
    /\ ValidateIdle
    /\ heap = <<>>
    /\ core_rules = NoRuleset
    /\ document_rules = NoRuleset
    /\ retailer_rules = NoRuleset
    /\ merged_rules = NoRuleset
    /\ call = NoCall @@ [returned |-> <<>>]

NextLoad ==
    \/ LoadCoreRules
    \/ \E dt \in DocTypeInputs : LoadDocumentRules(dt)
    \/ \E r \in RetailerInputs : LoadRetailerRules(r)
    \/ \E dt \in DocTypeInputs, r \in RetailerInputs : LoadRules(dt, r)

SpecLoad == InitLoad /\ [][NextLoad]_vars

\* the document type / retailer the call names is outside the supported set
BadDocType(c) == \A n \in DOMAIN rule_file_map : Strip(c.doc_type) # rule_file_map[n]
BadRetailer(c) ==
    /\ c.retailer # NoneStr
    /\ c.retailer # <<>>
    /\ \A n \in DOMAIN retailer_file_map : Strip(Lower(c.retailer)) # retailer_file_map[n]

\* C9: a load for a document type outside {850, 856, 810} or for a retailer
\* outside {walmart, amazon, target} (a retailer argument of None or "" means
\* no retailer) raises an error naming the invalid value and the supported
\* set; load_rules then returns no ruleset and the loader's merged ruleset,
\* with the rules it refers to, is what it was before the call.
C9_UnsupportedTargetFails ==
    [][ /\ (call'.op \in {"load_rules", "load_document_rules"} /\ call'.n # call.n
            /\ BadDocType(call'))
           => /\ call'.outcome = "raise"
              /\ call'.error[3] = Strip(call'.doc_type)
              /\ call'.error[5] = <<D850, D856, D810>>
              /\ call'.returned = <<>>
              /\ merged_rules' = merged_rules
              /\ document_rules' = document_rules
              /\ Truthy(merged_rules) => Effective(heap', merged_rules') = Effective(heap, merged_rules)
        /\ (call'.op \in {"load_rules", "load_retailer_rules"} /\ call'.n # call.n
            /\ ~(call'.op = "load_rules" /\ BadDocType(call'))
            /\ BadRetailer(call'))
           => /\ call'.outcome = "raise"
              /\ call'.error[3] = Strip(Lower(call'.retailer))
              /\ call'.error[5] = <<Walmart, Amazon, Target>>
              /\ call'.returned = <<>>
              /\ merged_rules' = merged_rules
              /\ retailer_rules' = retailer_rules
              /\ Truthy(merged_rules) => Effective(heap', merged_rules') = Effective(heap, merged_rules)
      ]_vars

\* load_rules("999", ...) has raised on a loader that holds the merged
\* ruleset of an earlier successful load_rules
C9_Witness ==
    /\ call.op = "load_rules"
    /\ call.outcome = "raise"
    /\ BadDocType(call)
    /\ Truthy(merged_rules)
    /\ merged_rules.ruleset_info.doc_type = D850

(***************************************************************************)
(* Rule evaluators  (rule_evaluators.py)                                   *)
(***************************************************************************)
Digits == <<"0", "1", "2", "3", "4", "5", "6", "7", "8", "9">>
IsDigit(ch) == \E d \in DOMAIN Digits : Digits[d] = ch
DigitValue(ch) == CHOOSE d \in 0..9 : Digits[d + 1] = ch

\* str(n) and f"{n:02d}"
RECURSIVE Str(_)
Str(n) ==
    IF n < 0 THEN <<"-">> \o Str(-n)
    ELSE IF n < 10 THEN <<Digits[n + 1]>>
    ELSE Str(n \div 10) \o <<Digits[(n % 10) + 1]>>

Fmt02d(n) == IF n >= 0 /\ n < 10 THEN <<"0">> \o Str(n) ELSE Str(n)

RECURSIVE DigitsValue(_, _)
DigitsValue(t, acc) ==
    IF t = <<>> THEN acc ELSE DigitsValue(Tail(t), acc * 10 + DigitValue(Head(t)))

AllDigits(t) == t # <<>> /\ \A i \in DOMAIN t : IsDigit(t[i])
Unsigned(t) == IF t # <<>> /\ Head(t) \in {"+", "-"} THEN Tail(t) ELSE t
Signed(t, n) == IF t # <<>> /\ Head(t) = "-" THEN -n ELSE n

\* int(text): ok is FALSE where Python raises ValueError
ParseInt(t) ==
    IF AllDigits(Unsigned(Strip(t)))
    THEN [ok |-> TRUE, value |-> Signed(Strip(t), DigitsValue(Unsigned(Strip(t)), 0)), text |-> t]
    ELSE [ok |-> FALSE, value |-> 0, text |-> t]

\* int(v) of a JSON value: a number [int |-> n] or a string [str |-> chars]
PyInt(v) == IF Has(v, "int") THEN [ok |-> TRUE, value |-> v.int, text |-> <<>>] ELSE ParseInt(v.str)

\* truth value of a JSON number or string
TruthyValue(v) == IF Has(v, "int") THEN v.int # 0 ELSE v.str # <<>>

\* str(e) of the ValueError of int() and of a KeyError
InvalidLiteral(text) == <<"invalid literal for int() with base 10: '">> \o text \o <<"'">>
KeyErrorText(key) == <<"'", key, "'">>

\* elements[p] for a 0-based position p inside the list
PyAt(elements, p) == elements[p + 1]

RECURSIVE Join(_, _)
Join(parts, sep) ==
    IF parts = <<>> THEN <<>>
    ELSE IF Len(parts) = 1 THEN parts[1]
    ELSE parts[1] \o sep \o Join(Tail(parts), sep)

Take(list, n) == SubSeq(list, 1, IF Len(list) < n THEN Len(list) ELSE n)
Quoted(list) == [i \in DOMAIN list |-> <<"'">> \o list[i] \o <<"'">>]
PyList(list) == <<"[">> \o Join(Quoted(list), <<", ">>) \o <<"]">>

\* re.match(regex, value) for the patterns the rules use: "match", "no", or
\* "raise" for a pattern re cannot compile
re_match(regex, value) ==
    CASE regex = "^[0-9]+$"  -> IF AllDigits(value) THEN "match" ELSE "no"
      [] regex = "[0-9]"     -> IF value # <<>> /\ IsDigit(value[1]) THEN "match" ELSE "no"
      [] regex = "["         -> "raise"
      [] OTHER               -> "no"

\* an evaluator in progress: c is the collector it reports to, raised says
\* that an exception is propagating, exc is str(e)
Running(c) == [c |-> c, raised |-> FALSE, exc |-> <<>>]
Raise(st, exc) == [st EXCEPT !.raised = TRUE, !.exc = exc]

\* self.error_collector.add_error(rule_id=rule["rule_id"], severity=rule["severity"], ...)
Report(st, rule, message, segment_id, line_number, element_position, expected_value, actual_value, context) ==
    IF st.raised THEN st
    ELSE IF ~Has(rule, "rule_id") THEN Raise(st, KeyErrorText("rule_id"))
    ELSE IF ~Has(rule, "severity") THEN Raise(st, KeyErrorText("severity"))
    ELSE [st EXCEPT !.c = add_error(@, ValidationError(rule.rule_id, rule.severity, message, segment_id, line_number, element_position, expected_value, actual_value, context), rule.severity)]

SegmentsOf(parsed) == Get(parsed, "segments", <<>>)
ElementsOf(segment) == Get(segment, "elements", <<>>)

\* ---- RequiredSegmentValidator ----
RECURSIVE FiltersFrom(_, _, _)
\* one element filter: position = int(position), then the comparison
FilterStep(elements, filters, i, pos) ==
    IF ~pos.ok THEN [verdict |-> "raise", exc |-> InvalidLiteral(pos.text)]
    ELSE IF pos.value >= Len(elements) \/ PyAt(elements, pos.value) # filters[i].value
    THEN [verdict |-> "no", exc |-> <<>>]
    ELSE FiltersFrom(elements, filters, i + 1)

\* the loop over element_filters.items()
FiltersFrom(elements, filters, i) ==
    IF i > Len(filters) THEN [verdict |-> "match", exc |-> <<>>]
    ELSE FilterStep(elements, filters, i, PyInt(filters[i].position))

FindMatch(acc, segment, f) ==
    IF f.verdict = "raise" THEN [acc EXCEPT !.raised = TRUE, !.exc = f.exc]
    ELSE IF f.verdict = "match" THEN [acc EXCEPT !.matching = Append(@, segment)]
    ELSE acc

FindStep(acc, segment, segment_id, element_filters) ==
    IF segment.segment_id # segment_id THEN acc
    ELSE IF element_filters = <<>> THEN [acc EXCEPT !.matching = Append(@, segment)]
    ELSE FindMatch(acc, segment, FiltersFrom(ElementsOf(segment), element_filters, 1))

RECURSIVE FindFrom(_, _, _, _, _)
FindFrom(acc, segments, i, segment_id, element_filters) ==
    IF acc.raised \/ i > Len(segments) THEN acc
    ELSE FindFrom(FindStep(acc, segments[i], segment_id, element_filters),
                  segments, i + 1, segment_id, element_filters)

_find_matching_segments_unfiltered(segments, segment_id, element_filters) ==
    FindFrom([matching |-> <<>>, raised |-> FALSE, exc |-> <<>>], segments, 1, segment_id, <<>>)

\* RequiredSegmentValidator._find_matching_segments
_find_matching_segments(segments, segment_id, element_filters) ==
    FindFrom([matching |-> <<>>, raised |-> FALSE, exc |-> <<>>], segments, 1, segment_id, element_filters)

\* the minimum check; its message reads rule['description']
RequiredMin(st, rule, count, min_occurrences) ==
    IF count >= min_occurrences THEN st
    ELSE IF Has(rule, "rule_id") /\ Has(rule, "severity") /\ ~Has(rule, "description")
    THEN Raise(st, KeyErrorText("description"))
    ELSE Report(st, rule,
                <<Get(rule, "description", "")>> \o <<" (found ">> \o Str(count)
                    \o <<", expected at least ">> \o Str(min_occurrences) \o <<")">>,
                Get(rule, "segment_id", NoneStr), NoneInt, NoneInt,
                <<"min ">> \o Str(min_occurrences), Str(count), <<>>)

RequiredMax_first_occurrence(st, rule, matching, max_occurrences) ==
    IF st.raised \/ max_occurrences = NoneInt \/ Len(matching) <= max_occurrences THEN st
    ELSE Report(st, rule,
                Get(rule, "segment_id", NoneStr) \o <<" appears too many times (found ">>
                    \o Str(Len(matching)) \o <<", max ">> \o Str(max_occurrences) \o <<")">>,
                Get(rule, "segment_id", NoneStr),
                IF Len(matching) > 0 THEN Get(PyAt(matching, 0), "line", NoneInt)
                ELSE NoneInt,
                NoneInt, <<"max ">> \o Str(max_occurrences), Str(Len(matching)), <<>>)

\* the maximum check; the issue is located at matching_segments[max_occurrences]
RequiredMax(st, rule, matching, max_occurrences) ==
    IF st.raised \/ max_occurrences = NoneInt \/ Len(matching) <= max_occurrences THEN st
    ELSE Report(st, rule,
                Get(rule, "segment_id", NoneStr) \o <<" appears too many times (found ">>
                    \o Str(Len(matching)) \o <<", max ">> \o Str(max_occurrences) \o <<")">>,
                Get(rule, "segment_id", NoneStr),
                IF Len(matching) > 0 THEN Get(PyAt(matching, max_occurrences), "line", NoneInt)
                ELSE NoneInt,
                NoneInt, <<"max ">> \o Str(max_occurrences), Str(Len(matching)), <<>>)

RequiredChecks(st, rule, found) ==
    IF found.raised THEN Raise(st, found.exc)
    ELSE RequiredMax(RequiredMin(st, rule, Len(found.matching), Get(rule, "min_occurrences", 0)),
                     rule, found.matching, Get(rule, "max_occurrences", NoneInt))

\* the body of the loop over rules
RequiredRule(st, rule, segments) ==
    RequiredChecks(st, rule,
                   _find_matching_segments(segments, Get(rule, "segment_id", NoneStr),
                                           Get(rule, "element_filters", <<>>)))

RECURSIVE RequiredRules(_, _, _, _)
RequiredRules(st, segments, rule_list, i) ==
    IF st.raised \/ i > Len(rule_list) THEN st
    ELSE RequiredRules(RequiredRule(st, rule_list[i], segments), segments, rule_list, i + 1)

\* RequiredSegmentValidator.validate
RequiredSegmentValidator_validate(c, parsed, rule_list) ==
    RequiredRules(Running(c), SegmentsOf(parsed), rule_list, 1)

\* ---- ElementValidator ----
CheckConditionalAt(segment, conditional, pos) ==
    IF ~pos.ok THEN [verdict |-> "raise", exc |-> InvalidLiteral(pos.text)]
    ELSE IF pos.value < Len(ElementsOf(segment))
            /\ Strip(PyAt(ElementsOf(segment), pos.value)) = Get(conditional, "equals", NoneStr)
    THEN [verdict |-> "true", exc |-> <<>>]
    ELSE [verdict |-> "false", exc |-> <<>>]

\* ElementValidator._check_conditional
_check_conditional(segment, conditional) ==
    IF Has(conditional, "if_element") /\ TruthyValue(conditional.if_element)
    THEN CheckConditionalAt(segment, conditional, PyInt(conditional.if_element))
    ELSE [verdict |-> "false", exc |-> <<>>]

Position(segment, position) == segment.segment_id \o Fmt02d(position)

CheckMinLength(st, rule, segment, position, value, min_length) ==
    IF min_length # 0 /\ Len(value) < min_length
    THEN Report(st, rule,
                Position(segment, position) \o <<" is too short (min ">> \o Str(min_length)
                    \o <<", got ">> \o Str(Len(value)) \o <<")">>,
                segment.segment_id, Get(segment, "line", NoneInt), position,
                <<"min length ">> \o Str(min_length), value, <<>>)
    ELSE st

CheckMaxLength(st, rule, segment, position, value, max_length) ==
    IF max_length # 0 /\ Len(value) > max_length
    THEN Report(st, rule,
                Position(segment, position) \o <<" is too long (max ">> \o Str(max_length)
                    \o <<", got ">> \o Str(Len(value)) \o <<")">>,
                segment.segment_id, Get(segment, "line", NoneInt), position,
                <<"max length ">> \o Str(max_length), value, <<>>)
    ELSE st

CheckAllowed(st, rule, segment, position, value, allowed_values) ==
    IF allowed_values # <<>> /\ value \notin Range(allowed_values)
    THEN Report(st, rule,
                Position(segment, position) \o <<" has invalid value '">> \o value
                    \o <<"' (allowed: ">> \o Join(Take(allowed_values, 5), <<", ">>) \o <<"...)">>,
                segment.segment_id, Get(segment, "line", NoneInt), position,
                <<"one of ">> \o PyList(Take(allowed_values, 5)), value, <<>>)
    ELSE st

RegexVerdict(st, rule, segment, position, value, regex, verdict) ==
    IF verdict = "raise" THEN Raise(st, <<"re.error">>)
    ELSE IF verdict = "match" THEN st
    ELSE Report(st, rule,
                Position(segment, position) \o <<" does not match required pattern (value: '">>
                    \o value \o <<"')">>,
                segment.segment_id, Get(segment, "line", NoneInt), position,
                <<"pattern: ", regex>>, value, <<>>)

CheckRegex_unless_reported(st, rule, segment, position, value, regex) ==
    IF st.raised \/ regex = "" \/ collector_len(st.c) > 0 THEN st
    ELSE RegexVerdict(st, rule, segment, position, value, regex, re_match(regex, value))

CheckRegex(st, rule, segment, position, value, regex) ==
    IF st.raised \/ regex = "" THEN st
    ELSE RegexVerdict(st, rule, segment, position, value, regex, re_match(regex, value))

IsRequired(validations) == Get(validations, "required", FALSE) = TRUE

_validate_element_value_no_return(st, rule, segment, position, value, validations) ==
    IF value = <<>> /\ ~IsRequired(validations) THEN st
    ELSE CheckRegex(
           CheckAllowed(
             CheckMaxLength(
               CheckMinLength(
                 IF IsRequired(validations) /\ value = <<>>
                 THEN Report(st, rule, Position(segment, position) \o <<" is required but empty">>,
                             segment.segment_id, Get(segment, "line", NoneInt), position, NoneStr, value, <<>>)
                 ELSE st,
                 rule, segment, position, value, Get(validations, "min_length", 0)),
               rule, segment, position, value, Get(validations, "max_length", 0)),
             rule, segment, position, value, Get(validations, "allowed_values", <<>>)),
           rule, segment, position, value, Get(validations, "regex", ""))

\* ElementValidator._validate_element_value
_validate_element_value(st, rule, segment, position, value, validations) ==
    IF IsRequired(validations) /\ value = <<>>
    THEN Report(st, rule, Position(segment, position) \o <<" is required but empty">>,
                segment.segment_id, Get(segment, "line", NoneInt), position, NoneStr, value, <<>>)
    ELSE IF value = <<>> THEN st
    ELSE CheckRegex(
           CheckAllowed(
             CheckMaxLength(
               CheckMinLength(st, rule, segment, position, value, Get(validations, "min_length", 0)),
               rule, segment, position, value, Get(validations, "max_length", 0)),
             rule, segment, position, value, Get(validations, "allowed_values", <<>>)),
           rule, segment, position, value, Get(validations, "regex", ""))

\* one matching segment whose conditional, if any, applies
ElementCheck(st, rule, segment, position, validations) ==
    IF position >= Len(ElementsOf(segment))
    THEN IF IsRequired(validations)
         THEN Report(st, rule,
                     Get(rule, "segment_id", NoneStr) \o Fmt02d(position) \o <<" is required but missing">>,
                     Get(rule, "segment_id", NoneStr), Get(segment, "line", NoneInt), position,
                     NoneStr, NoneStr, <<>>)
         ELSE st
    ELSE _validate_element_value(st, rule, segment, position,
                                 Strip(PyAt(ElementsOf(segment), position)), validations)

ElementGuarded(st, rule, segment, position, guard) ==
    IF guard.verdict = "raise" THEN Raise(st, guard.exc)
    ELSE IF guard.verdict = "false" THEN st
    ELSE ElementCheck(st, rule, segment, position, Get(rule, "validations", <<>>))

ElementSegment(st, rule, segment, position) ==
    IF segment.segment_id # Get(rule, "segment_id", NoneStr) THEN st
    ELSE IF Get(rule, "conditional", <<>>) = <<>>
    THEN ElementCheck(st, rule, segment, position, Get(rule, "validations", <<>>))
    ELSE ElementGuarded(st, rule, segment, position, _check_conditional(segment, rule.conditional))

RECURSIVE ElementSegments(_, _, _, _, _)
ElementSegments(st, rule, segments, i, position) ==
    IF st.raised \/ i > Len(segments) THEN st
    ELSE ElementSegments(ElementSegment(st, rule, segments[i], position),
                         rule, segments, i + 1, position)

\* the body of the loop over rules, after element_position = int(...)
ElementRuleAt(st, rule, segments, pos) ==
    IF ~pos.ok THEN Raise(st, InvalidLiteral(pos.text))
    ELSE ElementSegments(st, rule, segments, 1, pos.value)

ElementRule(st, rule, segments) ==
    ElementRuleAt(st, rule, segments, PyInt(Get(rule, "element_position", [int |-> 0])))

RECURSIVE ElementRules(_, _, _, _)
ElementRules(st, segments, rule_list, i) ==
    IF st.raised \/ i > Len(rule_list) THEN st
    ELSE ElementRules(ElementRule(st, rule_list[i], segments), segments, rule_list, i + 1)

\* ElementValidator.validate
ElementValidator_validate(c, parsed, rule_list) ==
    ElementRules(Running(c), SegmentsOf(parsed), rule_list, 1)

\* ---- ConditionalRuleValidator ----
LoopSafetyLimit == 10

\* the segments after the trigger, up to the next within_loop segment
RECURSIVE LoopWindow(_, _, _, _, _)
LoopWindow(all_segments, i, trigger_line, within_loop, loop_segments) ==
    IF i > Len(all_segments) THEN loop_segments
    ELSE IF Get(all_segments[i], "line", 0) <= trigger_line
    THEN LoopWindow(all_segments, i + 1, trigger_line, within_loop, loop_segments)
    ELSE IF all_segments[i].segment_id = within_loop THEN loop_segments
    ELSE IF Len(loop_segments) + 1 > LoopSafetyLimit THEN Append(loop_segments, all_segments[i])
    ELSE LoopWindow(all_segments, i + 1, trigger_line, within_loop,
                    Append(loop_segments, all_segments[i]))

SearchScope_document(trigger_segment, all_segments, then_clause) == all_segments

SearchScope(trigger_segment, all_segments, then_clause) ==
    IF Get(then_clause, "within_loop", <<>>) # <<>>
    THEN LoopWindow(all_segments, 1, Get(trigger_segment, "line", NoneInt), then_clause.within_loop, <<>>)
    ELSE all_segments

ThenMessage(then_clause, default) ==
    IF Get(then_clause, "message", "") # "" THEN <<then_clause.message>> ELSE default

ThenRequiredOne(st, rule, trigger_segment, req_seg_id, loop_segments, then_clause) ==
    IF \E n \in DOMAIN loop_segments : loop_segments[n].segment_id = req_seg_id THEN st
    ELSE Report(st, rule,
                ThenMessage(then_clause, req_seg_id \o <<" is required when ">>
                                           \o trigger_segment.segment_id \o <<" is present">>),
                trigger_segment.segment_id, Get(trigger_segment, "line", NoneInt), NoneInt,
                NoneStr, NoneStr, [expected_segment |-> req_seg_id])

RECURSIVE ThenRequired(_, _, _, _, _, _, _)
ThenRequired(st, rule, trigger_segment, required_segments, i, loop_segments, then_clause) ==
    IF st.raised \/ i > Len(required_segments) THEN st
    ELSE ThenRequired(ThenRequiredOne(st, rule, trigger_segment, required_segments[i],
                                      loop_segments, then_clause),
                      rule, trigger_segment, required_segments, i + 1, loop_segments, then_clause)

ThenElementAt(st, rule, trigger_segment, required_element, pos, then_clause) ==
    IF ~pos.ok THEN Raise(st, InvalidLiteral(pos.text))
    ELSE IF Get(required_element, "segment", NoneStr) # trigger_segment.segment_id THEN st
    ELSE IF pos.value < Len(ElementsOf(trigger_segment))
            /\ Strip(PyAt(ElementsOf(trigger_segment), pos.value)) # <<>>
    THEN st
    ELSE Report(st, rule,
                ThenMessage(then_clause, required_element.segment \o Fmt02d(pos.value) \o <<" is required">>),
                required_element.segment, Get(trigger_segment, "line", NoneInt), pos.value,
                NoneStr, NoneStr, <<>>)

ThenElement(st, rule, trigger_segment, then_clause) ==
    IF st.raised \/ Get(then_clause, "required_element", <<>>) = <<>> THEN st
    ELSE ThenElementAt(st, rule, trigger_segment, then_clause.required_element,
                       PyInt(Get(then_clause.required_element, "element", [int |-> 0])), then_clause)

\* ConditionalRuleValidator._check_then_clause
_check_then_clause(st, rule, trigger_segment, all_segments, then_clause) ==
    ThenElement(
        IF Get(then_clause, "required_segments", <<>>) = <<>> THEN st
        ELSE ThenRequired(st, rule, trigger_segment, then_clause.required_segments, 1,
                          SearchScope(trigger_segment, all_segments, then_clause), then_clause),
        rule, trigger_segment, then_clause)

\* condition_met for the trigger element value
ConditionMet(element_value, condition) ==
    IF Get(condition, "if_value", <<>>) # <<>> /\ element_value = condition.if_value THEN TRUE
    ELSE Get(condition, "if_value_exists", FALSE) = TRUE /\ element_value # <<>>

CondAt(st, rule, segment, segments, pos) ==
    IF ~pos.ok THEN Raise(st, InvalidLiteral(pos.text))
    ELSE IF pos.value # NoneInt /\ pos.value < Len(ElementsOf(segment))
            /\ ConditionMet(Strip(PyAt(ElementsOf(segment), pos.value)), Get(rule, "condition", <<>>))
    THEN _check_then_clause(st, rule, segment, segments, Get(rule, "then", <<>>))
    ELSE st

\* if_element_pos = int(if_element) if if_element else None
IfElementPos(condition) ==
    IF Has(condition, "if_element") /\ TruthyValue(condition.if_element)
    THEN PyInt(condition.if_element)
    ELSE [ok |-> TRUE, value |-> NoneInt, text |-> <<>>]

CondSegment(st, rule, segment, segments) ==
    IF segment.segment_id # Get(Get(rule, "condition", <<>>), "if_segment", NoneStr) THEN st
    ELSE CondAt(st, rule, segment, segments, IfElementPos(Get(rule, "condition", <<>>)))

RECURSIVE CondSegments(_, _, _, _)
CondSegments(st, rule, segments, i) ==
    IF st.raised \/ i > Len(segments) THEN st
    ELSE CondSegments(CondSegment(st, rule, segments[i], segments), rule, segments, i + 1)

RECURSIVE ConditionalRules(_, _, _, _)
ConditionalRules(st, segments, rule_list, i) ==
    IF st.raised \/ i > Len(rule_list) THEN st
    ELSE ConditionalRules(CondSegments(st, rule_list[i], segments, 1), segments, rule_list, i + 1)

\* ConditionalRuleValidator.validate
ConditionalRuleValidator_validate(c, parsed, rule_list) ==
    ConditionalRules(Running(c), SegmentsOf(parsed), rule_list, 1)

\* ---- CrossSegmentValidator ----
WithSegmentId(segments, segment_id) == SelectSeq(segments, LAMBDA s : s.segment_id = segment_id)

LogicMessage(logic, default) ==
    IF Get(logic, "message", "") # "" THEN <<logic.message>> ELSE default

CountDeclared_swapped(st, rule, logic, target_seg, target_element, source_count, declared_count, parsed) ==
    IF ~parsed.ok
    THEN Report(st, rule,
                Get(logic, "target_segment", NoneStr) \o Fmt02d(target_element)
                    \o <<" contains invalid count value">>,
                Get(logic, "target_segment", NoneStr), Get(target_seg, "line", NoneInt),
                target_element, NoneStr, declared_count, <<>>)
    ELSE IF parsed.value # source_count
    THEN Report(st, rule,
                LogicMessage(logic, Get(logic, "target_segment", NoneStr) \o Fmt02d(target_element)
                                      \o <<" count mismatch">>),
                Get(logic, "target_segment", NoneStr), Get(target_seg, "line", NoneInt),
                target_element, declared_count, Str(source_count), <<>>)
    ELSE st

CountDeclared(st, rule, logic, target_seg, target_element, source_count, declared_count, parsed) ==
    IF ~parsed.ok
    THEN Report(st, rule,
                Get(logic, "target_segment", NoneStr) \o Fmt02d(target_element)
                    \o <<" contains invalid count value">>,
                Get(logic, "target_segment", NoneStr), Get(target_seg, "line", NoneInt),
                target_element, NoneStr, declared_count, <<>>)
    ELSE IF parsed.value # source_count
    THEN Report(st, rule,
                LogicMessage(logic, Get(logic, "target_segment", NoneStr) \o Fmt02d(target_element)
                                      \o <<" count mismatch">>),
                Get(logic, "target_segment", NoneStr), Get(target_seg, "line", NoneInt),
                target_element, Str(source_count), declared_count, <<>>)
    ELSE st

CountTarget(st, rule, logic, target_seg, target_element, source_count) ==
    IF target_element >= Len(ElementsOf(target_seg)) THEN st
    ELSE CountDeclared(st, rule, logic, target_seg, target_element, source_count,
                       Strip(PyAt(ElementsOf(target_seg), target_element)),
                       ParseInt(Strip(PyAt(ElementsOf(target_seg), target_element))))

RECURSIVE CountTargets(_, _, _, _, _, _, _)
CountTargets(st, rule, logic, target_segments, i, target_element, source_count) ==
    IF st.raised \/ i > Len(target_segments) THEN st
    ELSE CountTargets(CountTarget(st, rule, logic, target_segments[i], target_element, source_count),
                      rule, logic, target_segments, i + 1, target_element, source_count)

CountMatchAt(st, rule, segments, logic, pos) ==
    IF ~pos.ok THEN Raise(st, InvalidLiteral(pos.text))
    ELSE CountTargets(st, rule, logic,
                      WithSegmentId(segments, Get(logic, "target_segment", NoneStr)), 1, pos.value,
                      Len(WithSegmentId(segments, Get(logic, "source_segment", NoneStr))))

\* CrossSegmentValidator._validate_count_match
_validate_count_match(st, rule, segments, logic) ==
    CountMatchAt(st, rule, segments, logic, PyInt(Get(logic, "target_element", [int |-> 0])))

PairCompare_reversed(st, rule, pair, seg1, seg2, p1, p2) ==
    IF p1 < Len(ElementsOf(seg1)) /\ p2 < Len(ElementsOf(seg2))
       /\ Strip(PyAt(ElementsOf(seg1), p1)) # Strip(PyAt(ElementsOf(seg2), p2))
    THEN Report(st, rule,
                Get(pair, "segment_1", NoneStr) \o Fmt02d(p1) \o <<" and ">>
                    \o Get(pair, "segment_2", NoneStr) \o Fmt02d(p2) \o <<" must match">>,
                Get(pair, "segment_2", NoneStr), Get(seg2, "line", NoneInt), p2,
                Strip(PyAt(ElementsOf(seg2), p2)), Strip(PyAt(ElementsOf(seg1), p1)), <<>>)
    ELSE st

PairCompare(st, rule, pair, seg1, seg2, p1, p2) ==
    IF p1 < Len(ElementsOf(seg1)) /\ p2 < Len(ElementsOf(seg2))
       /\ Strip(PyAt(ElementsOf(seg1), p1)) # Strip(PyAt(ElementsOf(seg2), p2))
    THEN Report(st, rule,
                Get(pair, "segment_1", NoneStr) \o Fmt02d(p1) \o <<" and ">>
                    \o Get(pair, "segment_2", NoneStr) \o Fmt02d(p2) \o <<" must match">>,
                Get(pair, "segment_2", NoneStr), Get(seg2, "line", NoneInt), p2,
                Strip(PyAt(ElementsOf(seg1), p1)), Strip(PyAt(ElementsOf(seg2), p2)), <<>>)
    ELSE st

\* the loop over zip(seg1_list, seg2_list)
RECURSIVE PairZip(_, _, _, _, _, _, _, _)
PairZip(st, rule, pair, seg1_list, seg2_list, i, p1, p2) ==
    IF st.raised \/ i > Len(seg1_list) \/ i > Len(seg2_list) THEN st
    ELSE PairZip(PairCompare(st, rule, pair, seg1_list[i], seg2_list[i], p1, p2),
                 rule, pair, seg1_list, seg2_list, i + 1, p1, p2)

PairAt(st, rule, segments, pair, pos1, pos2) ==
    IF ~pos1.ok THEN Raise(st, InvalidLiteral(pos1.text))
    ELSE IF ~pos2.ok THEN Raise(st, InvalidLiteral(pos2.text))
    ELSE PairZip(st, rule, pair, WithSegmentId(segments, Get(pair, "segment_1", NoneStr)),
                 WithSegmentId(segments, Get(pair, "segment_2", NoneStr)), 1, pos1.value, pos2.value)

RECURSIVE MatchPairs(_, _, _, _, _)
MatchPairs(st, rule, segments, match_pairs, i) ==
    IF st.raised \/ i > Len(match_pairs) THEN st
    ELSE MatchPairs(PairAt(st, rule, segments, match_pairs[i],
                           PyInt(Get(match_pairs[i], "element_1", [int |-> 0])),
                           PyInt(Get(match_pairs[i], "element_2", [int |-> 0]))),
                    rule, segments, match_pairs, i + 1)

\* CrossSegmentValidator._validate_element_match
_validate_element_match(st, rule, segments, logic) ==
    MatchPairs(st, rule, segments, Get(logic, "match_pairs", <<>>), 1)

ValueExistsAt(st, rule, segments, logic, pos) ==
    IF ~pos.ok THEN Raise(st, InvalidLiteral(pos.text))
    ELSE IF \E n \in DOMAIN segments :
              /\ segments[n].segment_id = Get(logic, "segment_id", NoneStr)
              /\ pos.value < Len(ElementsOf(segments[n]))
              /\ Strip(PyAt(ElementsOf(segments[n]), pos.value)) = Get(logic, "required_value", NoneStr)
    THEN st
    ELSE Report(st, rule,
                LogicMessage(logic, <<"No ">> \o Get(logic, "segment_id", NoneStr) \o <<" segment with ">>
                                      \o Get(logic, "segment_id", NoneStr) \o Fmt02d(pos.value) \o <<"=">>
                                      \o Get(logic, "required_value", NoneStr) \o <<" found">>),
                Get(logic, "segment_id", NoneStr), NoneInt, NoneInt,
                Get(logic, "required_value", NoneStr), NoneStr, <<>>)

_validate_element_value_exists_first(st, rule, segments, logic) ==
    ValueExistsAt(st, rule, Take(segments, 1), logic, PyInt(Get(logic, "element_position", [int |-> 0])))

\* CrossSegmentValidator._validate_element_value_exists
_validate_element_value_exists(st, rule, segments, logic) ==
    ValueExistsAt(st, rule, segments, logic, PyInt(Get(logic, "element_position", [int |-> 0])))

\* the body of the loop over rules: dispatch on validation_logic.type
CrossRule(st, rule, segments, logic) ==
    IF Get(logic, "type", "") = "count_match" THEN _validate_count_match(st, rule, segments, logic)
    ELSE IF Get(logic, "type", "") = "element_match" THEN _validate_element_match(st, rule, segments, logic)
    ELSE IF Get(logic, "type", "") = "element_value_exists"
    THEN _validate_element_value_exists(st, rule, segments, logic)
    ELSE st

RECURSIVE CrossRules(_, _, _, _)
CrossRules(st, segments, rule_list, i) ==
    IF st.raised \/ i > Len(rule_list) THEN st
    ELSE CrossRules(CrossRule(st, rule_list[i], segments, Get(rule_list[i], "validation_logic", <<>>)),
                    segments, rule_list, i + 1)

\* CrossSegmentValidator.validate
CrossSegmentValidator_validate(c, parsed, rule_list) ==
    CrossRules(Running(c), SegmentsOf(parsed), rule_list, 1)

(***************************************************************************)
(* ValidationEngine  (validation_engine.py)                                *)
(***************************************************************************)
categories_swapped ==
    << [key |-> "element_rules",       name |-> "Element Rules"],
       [key |-> "required_segments",   name |-> "Required Segments"],
       [key |-> "conditional_rules",   name |-> "Conditional Rules"],
       [key |-> "cross_segment_rules", name |-> "Cross-Segment Rules"] >>

\* the four _validate_category calls of validate, in call order: the ruleset
\* key read and the category name passed
categories ==
    << [key |-> "required_segments",   name |-> "Required Segments"],
       [key |-> "element_rules",       name |-> "Element Rules"],
       [key |-> "conditional_rules",   name |-> "Conditional Rules"],
       [key |-> "cross_segment_rules", name |-> "Cross-Segment Rules"] >>

\* validator.validate(parsed_edi, rules) of the validator built for a key
Evaluate(key, c, parsed, rule_list) ==
    CASE key = "required_segments"   -> RequiredSegmentValidator_validate(c, parsed, rule_list)
      [] key = "element_rules"       -> ElementValidator_validate(c, parsed, rule_list)
      [] key = "conditional_rules"   -> ConditionalRuleValidator_validate(c, parsed, rule_list)
      [] key = "cross_segment_rules" -> CrossSegmentValidator_validate(c, parsed, rule_list)

\* the issue the except branch adds
SystemError(category_name, exc) ==
    ValidationError("SYSTEM_ERROR", "ERROR",
                    <<"System error during ", category_name, " validation: ">> \o exc,
                    NoneStr, NoneInt, NoneInt, NoneStr, NoneStr, <<>>)

CategoryEvaluated_uncaught(cs, v, e, st, category_name) == [cs EXCEPT ![v] = st.c]

\* after validator.validate: the validator's collector v holds what it
\* reported; an exception adds the system issue to self.error_collector (e)
CategoryEvaluated(cs, v, e, st, category_name) ==
    IF st.raised
    THEN [[cs EXCEPT ![v] = st.c] EXCEPT ![e] = add_error(@, SystemError(category_name, st.exc), "ERROR")]
    ELSE [cs EXCEPT ![v] = st.c]

\* ValidationEngine._validate_category on the collector objects cs
_validate_category(cs, v, e, parsed, rule_list, category) ==
    IF rule_list = <<>> THEN cs
    ELSE CategoryEvaluated(cs, v, e, Evaluate(category.key, cs[v], parsed, rule_list), category.name)

(***************************************************************************)
(* SpecValidate: ValidationEngine.validate on one engine                   *)
(***************************************************************************)
MaxSegments == 2
MaxListed == 2
MaxValidations == 2

sCTT == <<"C", "T", "T">>

\* the segments documents are built from, as lists of elements
SegmentInputs ==
    { <<sBEG, vSA>>, <<sCTT, <<"2">>>> }

\* EDIParser: one segment dict
Segment(line, elements) ==
    [line |-> line, segment_id |-> elements[1], elements |-> elements,
     element_count |-> Len(elements)]

\* EDIParser: the parsed document of a list of segments
Document(segs) ==
    [segments |-> [i \in DOMAIN segs |-> Segment(i, segs[i])],
     metadata |-> [doc_type |-> D850]]

RequiredPool ==
    { [rule_id |-> "REQ_N1", severity |-> "ERROR", description |-> "N1 is required",
       segment_id |-> sN1, min_occurrences |-> 1],
      [rule_id |-> "REQ_DTM", description |-> "DTM is required",
       segment_id |-> sDTM, min_occurrences |-> 1],
      [rule_id |-> "MAX_BEG", severity |-> "warning", description |-> "one BEG",
       segment_id |-> sBEG, max_occurrences |-> 1] }

ElementPool ==
    { [rule_id |-> "EL_BEG01", severity |-> "ERROR", segment_id |-> sBEG,
       element_position |-> [int |-> 1],
       validations |-> [required |-> TRUE, allowed_values |-> <<v00>>]],
      [rule_id |-> "EL_BAD", severity |-> "ERROR", segment_id |-> sBEG,
       element_position |-> [str |-> <<"x">>],
       validations |-> [required |-> TRUE]] }

ConditionalPool ==
    { [rule_id |-> "CO_N1", severity |-> "WARNING",
       condition |-> [if_segment |-> sBEG, if_element |-> [str |-> <<"0", "1">>], if_value |-> vSA],
       then |-> [required_segments |-> <<sN1>>]] }

CrossPool ==
    { [rule_id |-> "X_CTT", severity |-> "ERROR",
       validation_logic |-> [type |-> "count_match", source_segment |-> sBEG,
                             target_segment |-> sCTT, target_element |-> [int |-> 1]]] }

\* the rule list a ruleset under construction has for a category key
Listed(key, rq, el, co, cr) ==
    CASE key = "required_segments" -> rq
      [] key = "element_rules" -> el
      [] key = "conditional_rules" -> co
      [] key = "cross_segment_rules" -> cr

\* a ruleset dict: a category with no rules is left out
Ruleset(rq, el, co, cr) ==
    [key \in {k \in Range(rule_categories) : Listed(k, rq, el, co, cr) # <<>>}
     |-> Listed(key, rq, el, co, cr)]

NoRun == [pc |-> "idle", k |-> 0, validators |-> 0, results |-> <<>>]

InitValidate ==
    /\ ParserIdle
    /\ CollectorIdle
    /\ LoaderIdle
    /\ \E segs \in SeqsUpTo(SegmentInputs, MaxSegments) : parsed_edi = Document(segs)
    /\ \E rq \in SeqsUpTo(RequiredPool, MaxListed) :
         \E el \in SeqsUpTo(ElementPool, MaxListed - Len(rq)) :
           \E co \in SeqsUpTo(ConditionalPool, MaxListed - Len(rq) - Len(el)) :
             \E cr \in SeqsUpTo(CrossPool, MaxListed - Len(rq) - Len(el) - Len(co)) :
               rules = Ruleset(rq, el, co, cr)
    /\ collectors = <<>>
    /\ engine = [error_collector |-> 0]
    /\ run = NoRun
    /\ threads = <<>>

ValidateStart_reusing ==
    /\ run.pc = "idle"
    /\ Len(run.results) < MaxValidations
    /\ collectors' = IF collectors = <<>> THEN <<NewCollector>> ELSE collectors
    /\ engine' = [engine EXCEPT !.error_collector = 1]
    /\ run' = [run EXCEPT !.pc = "category", !.k = 1, !.validators = 1]
    /\ UNCHANGED <<parsed_edi, rules, threads, collectorVars, loaderVars, parserVars>>

\* validate, lines 210-219: a new collector, kept by the engine and handed to
\* the four validators
ValidateStart ==
    /\ run.pc = "idle"
    /\ Len(run.results) < MaxValidations
    /\ collectors' = Append(collectors, NewCollector)
    /\ engine' = [engine EXCEPT !.error_collector = Len(collectors) + 1]
    /\ run' = [run EXCEPT !.pc = "category", !.k = 1, !.validators = Len(collectors) + 1]
    /\ UNCHANGED <<parsed_edi, rules, threads, collectorVars, loaderVars, parserVars>>

ValidateCategory_consuming ==
    /\ run.pc = "category"
    /\ collectors' = _validate_category(collectors, run.validators, engine.error_collector,
                                        parsed_edi, Get(rules, categories[run.k].key, <<>>),
                                        categories[run.k])
    /\ run' = IF run.k < Len(categories) THEN [run EXCEPT !.k = @ + 1]
              ELSE [run EXCEPT !.pc = "return"]
    /\ rules' = [key \in DOMAIN rules |-> IF key = categories[run.k].key THEN <<>> ELSE rules[key]]
    /\ UNCHANGED <<parsed_edi, engine, threads, collectorVars, loaderVars, parserVars>>

\* validate, lines 227-253: the next _validate_category call
ValidateCategory ==
    /\ run.pc = "category"
    /\ collectors' = _validate_category(collectors, run.validators, engine.error_collector,
                                        parsed_edi, Get(rules, categories[run.k].key, <<>>),
                                        categories[run.k])
    /\ run' = IF run.k < Len(categories) THEN [run EXCEPT !.k = @ + 1]
              ELSE [run EXCEPT !.pc = "return"]
    /\ UNCHANGED <<parsed_edi, rules, engine, threads, collectorVars, loaderVars, parserVars>>

\* validate, lines 268-273: the result holds self.error_collector
ValidateReturn ==
    /\ run.pc = "return"
    /\ run' = [run EXCEPT !.pc = "idle", !.results = Append(@, engine.error_collector)]
    /\ UNCHANGED <<parsed_edi, rules, collectors, engine, threads, collectorVars, loaderVars, parserVars>>

NextValidate == ValidateStart \/ ValidateCategory \/ ValidateReturn

SpecValidate == InitValidate /\ [][NextValidate]_vars

\* ---- properties of validate ----
CategoryKeys == <<"required_segments", "element_rules", "conditional_rules", "cross_segment_rules">>
CategoryNames == <<"Required Segments", "Element Rules", "Conditional Rules", "Cross-Segment Rules">>
RulesOf(k) == Get(rules, CategoryKeys[k], <<>>)

\* what the evaluator of category k reports for the document when it starts
\* from an empty collector
Alone(k) == Evaluate(CategoryKeys[k], NewCollector, parsed_edi, RulesOf(k))
Raises(k) == RulesOf(k) # <<>> /\ Alone(k).raised

\* the issues of category k in one severity list: the evaluator's, then the
\* system issue when it raised
CategoryPart(k, list) ==
    IF RulesOf(k) = <<>> THEN <<>>
    ELSE Alone(k).c[list]
         \o (IF list = "errors" /\ Alone(k).raised
             THEN <<SystemError(CategoryNames[k], Alone(k).exc)>> ELSE <<>>)

RECURSIVE PartsBefore(_, _)
PartsBefore(k, list) == IF k <= 1 THEN <<>> ELSE PartsBefore(k - 1, list) \o CategoryPart(k - 1, list)

Lists == {"errors", "warnings", "info"}
IsSystemError(issue, k) ==
    /\ issue.rule_id = "SYSTEM_ERROR"
    /\ issue.severity = "ERROR"
    /\ issue.message[2] = CategoryNames[k]
SystemErrorsOf(c, k) == {n \in DOMAIN c.errors : IsSystemError(c.errors[n], k)}
Result(i) == collectors[run.results[i]]
Holds(c, issue) == \E n \in DOMAIN get_all_errors(c) : get_all_errors(c)[n] = issue

\* C2: when the evaluator of a category raises, that _validate_category call
\* adds exactly one SYSTEM_ERROR issue of severity ERROR naming the category
\* and validate goes on to the next category; the returned result holds one
\* such issue per raising category and every issue of the later categories.
C2_CategoryExceptionContained ==
    /\ [](\A i \in DOMAIN run.results : \A k \in DOMAIN CategoryKeys :
            /\ Cardinality(SystemErrorsOf(Result(i), k)) = (IF Raises(k) THEN 1 ELSE 0)
            /\ Raises(k) =>
                 \A later \in DOMAIN CategoryKeys : later > k =>
                   \A list \in Lists : \A n \in DOMAIN CategoryPart(later, list) :
                     Holds(Result(i), CategoryPart(later, list)[n]))
    /\ [][(run.pc = "category" /\ run' # run /\ Raises(run.k)) =>
            /\ Cardinality(SystemErrorsOf(collectors'[run.validators], run.k)) = 1
            /\ Len(collectors'[run.validators].errors)
                 = Len(collectors[run.validators].errors) + Len(Alone(run.k).c.errors) + 1
            /\ IF run.k < 4 THEN run'.pc = "category" /\ run'.k = run.k + 1
               ELSE run'.pc = "return"]_vars
    /\ [][run.pc = "return" => (run'.pc = "idle" /\ Len(run'.results) = Len(run.results) + 1)]_vars

\* a validate call has returned a result although the required-segment
\* evaluator raised, and a later category has reported an issue of its own
C2_Witness ==
    /\ run.results # <<>>
    /\ Raises(1)
    /\ \E later \in 2..4 : \E n \in DOMAIN Result(1).errors :
         Result(1).errors[n].rule_id \notin {"SYSTEM_ERROR"}
         /\ \E m \in DOMAIN Alone(later).c.errors : Alone(later).c.errors[m] = Result(1).errors[n]

\* what rule j of category k reports when it is the only rule of the ruleset
RuleAlone(k, j) == Evaluate(CategoryKeys[k], NewCollector, parsed_edi, <<RulesOf(k)[j]>>)

\* C3 as stated: every rule that can be evaluated has its violations in the
\* result, whatever malformed rule is listed with it
C3_Original ==
    \A i \in DOMAIN run.results : \A k \in DOMAIN CategoryKeys : \A j \in DOMAIN RulesOf(k) :
      ~RuleAlone(k, j).raised =>
        \A n \in DOMAIN get_all_errors(RuleAlone(k, j).c) :
          Holds(Result(i), get_all_errors(RuleAlone(k, j).c)[n])

\* C4: while validate runs, each severity list of the run's collector is the
\* concatenation, in the order required-segment, element, conditional,
\* cross-segment, of what the categories already run have reported; a category
\* with no rules contributes nothing; the returned result holds all four.
C4_CategoryOrder ==
    /\ run.pc = "category" =>
         \A list \in Lists : collectors[run.validators][list] = PartsBefore(run.k, list)
    /\ run.pc = "return" =>
         \A list \in Lists : collectors[run.validators][list] = PartsBefore(5, list)
    /\ \A i \in DOMAIN run.results :
         \A list \in Lists : Result(i)[list] = PartsBefore(5, list)

\* a returned result whose error list holds issues of two categories, with
\* an empty category skipped in between or around them
C4_Witness ==
    /\ run.results # <<>>
    /\ \E k1, k2 \in DOMAIN CategoryKeys :
         /\ k1 < k2
         /\ CategoryPart(k1, "errors") # <<>>
         /\ CategoryPart(k2, "errors") # <<>>
    /\ \E k \in DOMAIN CategoryKeys : RulesOf(k) = <<>>

(***************************************************************************)
(* EDI parser  (segment_utils.py, edi_parser.py)                           *)
(***************************************************************************)
SEGMENT_TERMINATOR == "~"
ELEMENT_SEPARATOR == "*"

\* str.split(sep) for a one-character separator
RECURSIVE SplitFrom(_, _, _, _)
SplitFrom(t, sep, i, piece) ==
    IF i > Len(t) THEN <<piece>>
    ELSE IF t[i] = sep THEN <<piece>> \o SplitFrom(t, sep, i + 1, <<>>)
    ELSE SplitFrom(t, sep, i + 1, Append(piece, t[i]))

Split(t, sep) == SplitFrom(t, sep, 1, <<>>)

\* .replace('\r\n', '\n') and .replace('\r', '\n')
RECURSIVE ReplaceCRLF(_)
ReplaceCRLF(t) ==
    IF t = <<>> THEN <<>>
    ELSE IF Len(t) >= 2 /\ t[1] = "\r" /\ t[2] = "\n" THEN <<"\n">> \o ReplaceCRLF(SubSeq(t, 3, Len(t)))
    ELSE <<t[1]>> \o ReplaceCRLF(Tail(t))

ReplaceCR(t) == [i \in DOMAIN t |-> IF t[i] = "\r" THEN "\n" ELSE t[i]]

\* [x.strip() for x in list if x.strip()]
StrippedNonEmpty(list) == SelectSeq([i \in DOMAIN list |-> Strip(list[i])], LAMBDA x : x # <<>>)

\* segment_utils.normalize_edi_text
normalize_edi_text(raw_text) ==
    Join(StrippedNonEmpty(Split(ReplaceCR(ReplaceCRLF(Strip(raw_text))), "\n")), <<"\n">>)

\* segment_utils.split_segments
split_segments(text) == StrippedNonEmpty(Split(normalize_edi_text(text), SEGMENT_TERMINATOR))

split_elements_dropping(segment) ==
    SelectSeq(Split(segment, ELEMENT_SEPARATOR), LAMBDA x : x # <<>>)

\* segment_utils.split_elements
split_elements(segment) == Split(segment, ELEMENT_SEPARATOR)

\* segment_utils.get_segment_id
get_segment_id(segment) ==
    IF split_elements(segment) # <<>> THEN split_elements(segment)[1] ELSE <<>>

\* segment_utils.get_element_value
get_element_value(segment, position, default) ==
    IF position < Len(split_elements(segment)) /\ Strip(PyAt(split_elements(segment), position)) # <<>>
    THEN Strip(PyAt(split_elements(segment), position))
    ELSE default

sST == <<"S", "T">>

\* EDIParser._extract_metadata, the doc_type field: element 1 of the last ST segment
RECURSIVE DocTypeFrom(_, _, _)
DocTypeFrom(segments, i, doc_type) ==
    IF i > Len(segments) THEN doc_type
    ELSE DocTypeFrom(segments, i + 1,
                     IF get_segment_id(segments[i]) = sST
                     THEN get_element_value(segments[i], 1, <<>>) ELSE doc_type)

_extract_metadata(segments) == [doc_type |-> DocTypeFrom(segments, 1, <<>>)]

FirstLine == 1

ParsedSegment_zero_based(line_number, segment_str, elements) ==
    Segment(line_number - 1, elements) @@ [raw |-> segment_str]

\* the segment_dict of _parse_all_segments
ParsedSegment(line_number, segment_str, elements) ==
    Segment(line_number, elements) @@ [raw |-> segment_str]

\* EDIParser._parse_all_segments: the loop from segment i on
RECURSIVE ParseFrom(_, _, _, _)
ParseFrom(segments, i, line_number, parsed_segments) ==
    IF i > Len(segments) THEN parsed_segments
    ELSE IF split_elements(segments[i]) = <<>>
    THEN ParseFrom(segments, i + 1, line_number, parsed_segments)
    ELSE ParseFrom(segments, i + 1, line_number + 1,
                   Append(parsed_segments,
                          ParsedSegment(line_number, segments[i], split_elements(segments[i]))))

_parse_all_segments(segments) == ParseFrom(segments, 1, FirstLine, <<>>)

SegmentIds(parsed_segments) == {parsed_segments[i].segment_id : i \in DOMAIN parsed_segments}

required_envelope ==
    { <<"I", "S", "A">>, <<"G", "S">>, <<"S", "T">>, <<"S", "E">>, <<"G", "E">>, <<"I", "E", "A">> }

\* EDIParser._has_complete_envelope
_has_complete_envelope(parsed_segments) == required_envelope \subseteq SegmentIds(parsed_segments)

\* EDIParser._calculate_statistics
_calculate_statistics(parsed_segments) ==
    [total_segments |-> Len(parsed_segments),
     segment_counts |-> [id \in SegmentIds(parsed_segments) |->
                           Cardinality({i \in DOMAIN parsed_segments : parsed_segments[i].segment_id = id})],
     has_envelope |-> _has_complete_envelope(parsed_segments)]

\* EDIParser._build_parsed_structure
_build_parsed_structure(segments) ==
    [metadata |-> _extract_metadata(segments),
     segments |-> _parse_all_segments(segments),
     statistics |-> _calculate_statistics(_parse_all_segments(segments))]

ParseRaised(P, error) == [parser |-> P, raised |-> TRUE, error |-> error, returned |-> <<>>]

ParseBuilt(P, parsed_data) ==
    [parser |-> [P EXCEPT !.parsed_data = parsed_data], raised |-> FALSE, error |-> "",
     returned |-> parsed_data]

\* parse_text once self.raw_text and self.segments are assigned
ParseSegments(P, segments) ==
    IF segments = <<>> THEN ParseRaised(P, "No segments found in EDI text")
    ELSE ParseBuilt(P, _build_parsed_structure(segments))

\* EDIParser.parse_text
parse_text(P, text) ==
    IF text = <<>> \/ Strip(text) = <<>> THEN ParseRaised(P, "EDI text is empty")
    ELSE ParseSegments([P EXCEPT !.raw_text = text,
                                 !.segments = split_segments(normalize_edi_text(text))],
                       split_segments(normalize_edi_text(text)))

(***************************************************************************)
(* SpecParse: one parser call on a text                                    *)
(***************************************************************************)
MaxText == 4

TextAlphabet == {"S", "T", "*", "~", " ", "\n", "\r"}

InitParse ==
    /\ CollectorIdle
    /\ LoaderIdle
    /\ ValidateIdle
    /\ edi_text \in SeqsUpTo(TextAlphabet, MaxText)
    /\ parser = NewParser
    /\ parse_call = NoParse

\* parser.parse_text(edi_text)
Parsed(res) ==
    /\ parser' = res.parser
    /\ parse_call' = [op |-> "parse_text", outcome |-> IF res.raised THEN "raise" ELSE "ok",
                      error |-> res.error, returned |-> res.returned]

ParseText ==
    /\ parse_call.op = "none"
    /\ Parsed(parse_text(parser, edi_text))
    /\ UNCHANGED <<edi_text, collectorVars, loaderVars, validateVars>>

\* split_elements(edi_text), the text taken as one segment
SplitElements ==
    /\ parse_call.op = "none"
    /\ parse_call' = [op |-> "split_elements", outcome |-> "ok", error |-> "",
                      returned |-> split_elements(edi_text)]
    /\ UNCHANGED <<edi_text, parser, collectorVars, loaderVars, validateVars>>

NextParse == ParseText \/ SplitElements

SpecParse == InitParse /\ [][NextParse]_vars

Occurrences(t, ch) == Cardinality({i \in DOMAIN t : t[i] = ch})

\* C11 as stated: a text of whitespace only, or without a segment terminator,
\* makes parse_text fail and return no document
C11_Original ==
    (parse_call.op = "parse_text"
       /\ (Strip(edi_text) = <<>> \/ Occurrences(edi_text, SEGMENT_TERMINATOR) = 0))
    => (parse_call.outcome = "raise" /\ parse_call.returned = <<>>)

\* C12: split_elements of a segment with k separators returns k+1 elements,
\* none holding a separator, empty ones kept, whose join with the separator
\* is the segment
C12_SplitElementsPreserves ==
    parse_call.op = "split_elements" =>
      /\ Len(parse_call.returned) = Occurrences(edi_text, ELEMENT_SEPARATOR) + 1
      /\ \A i \in DOMAIN parse_call.returned :
           Occurrences(parse_call.returned[i], ELEMENT_SEPARATOR) = 0
      /\ Join(parse_call.returned, <<ELEMENT_SEPARATOR>>) = edi_text

\* a segment split into four elements with the two middle ones empty
C12_Witness ==
    /\ parse_call.op = "split_elements"
    /\ Len(parse_call.returned) = 4
    /\ parse_call.returned[2] = <<>>
    /\ parse_call.returned[3] = <<>>
    /\ parse_call.returned[4] # <<>>

\* C13: in a document built by parse_text the i-th segment has line number i,
\* and total_segments is the number of segments
C13_LineNumbersAscending ==
    (parse_call.op = "parse_text" /\ parse_call.outcome = "ok") =>
      /\ \A i \in DOMAIN parse_call.returned.segments : parse_call.returned.segments[i].line = i
      /\ parse_call.returned.statistics.total_segments = Len(parse_call.returned.segments)
      /\ parse_call.returned = parser.parsed_data

\* a document of two segments that were separated by an empty segment in the text
C13_Witness ==
    /\ parse_call.op = "parse_text"
    /\ parse_call.outcome = "ok"
    /\ Len(parse_call.returned.segments) = 2
    /\ Len(edi_text) = 4
    /\ edi_text[2] = SEGMENT_TERMINATOR
    /\ edi_text[3] = SEGMENT_TERMINATOR

(***************************************************************************)
(* SpecEvaluate: one evaluator applied to a document and a rule list       *)
(***************************************************************************)
MaxDocSegments == 3
MaxElementSegments == 2
MaxOccurrences == 2

sPO1 == <<"P", "O", "1">>
vABC == <<"A", "B", "C">>

OneOrNone(S) == {<<>>} \cup S

\* required-segment rules on BEG: a minimum, an optional maximum, an optional element filter
RequiredInputs ==
    { [rule_id |-> "REQ_BEG", severity |-> "ERROR", description |-> "BEG is required",
       segment_id |-> sBEG, min_occurrences |-> m] @@ mx @@ f :
        m \in 0..MaxOccurrences,
        mx \in OneOrNone({[max_occurrences |-> x] : x \in 0..MaxOccurrences}),
        f \in OneOrNone({[element_filters |-> <<[position |-> [str |-> <<"1">>], value |-> v00]>>]}) }

RequiredN1 ==
    [rule_id |-> "REQ_N1", severity |-> "WARNING", description |-> "N1 is required",
     segment_id |-> sN1, min_occurrences |-> 1]

RequiredDocs == { Document(segs) : segs \in SeqsUpTo({<<sBEG, v00>>, <<sBEG, vSA>>, <<sN1>>}, MaxDocSegments) }

\* element rules on BEG01
ElementInputs ==
    { [rule_id |-> "EL_BEG01", severity |-> "ERROR", segment_id |-> sBEG,
       element_position |-> [int |-> 1],
       validations |-> rq @@ mn @@ mx @@ al @@ re] @@ co :
        rq \in OneOrNone({[required |-> TRUE]}),
        mn \in OneOrNone({[min_length |-> 4]}),
        mx \in OneOrNone({[max_length |-> 2]}),
        al \in OneOrNone({[allowed_values |-> <<v00>>]}),
        re \in OneOrNone({[regex |-> "^[0-9]+$"]}),
        co \in OneOrNone({[conditional |-> [if_element |-> [str |-> <<"2">>], equals |-> vNE]]}) }

ElementDocs ==
    { Document(segs) :
        segs \in SeqsUpTo({<<sBEG>>, <<sBEG, <<>>>>, <<sBEG, <<" ">>>>, <<sBEG, v00>>, <<sBEG, vABC>>,
                           <<sBEG, vABC, vNE>>, <<sBEG, <<>>, vNE>>, <<sN1, v00>>}, MaxElementSegments) }

\* count_match rules: CTT01 declares the number of PO1 segments
CountInputs ==
    { [rule_id |-> "X_CTT", severity |-> "ERROR",
       validation_logic |-> [type |-> "count_match", source_segment |-> sPO1,
                             target_segment |-> sCTT, target_element |-> [int |-> 1]] @@ msg] :
        msg \in OneOrNone({[message |-> "Line item count mismatch"]}) }

CountDocs ==
    { Document(segs) :
        segs \in SeqsUpTo({<<sPO1>>, <<sCTT>>, <<sCTT, <<>>>>, <<sCTT, <<"2">>>>, <<sCTT, <<"3">>>>,
                           <<sCTT, <<"0", "2">>>>, <<sCTT, <<"x">>>>}, MaxDocSegments) }

\* conditional rules triggered by BEG01: literal mode, exists mode, or both
\* fields given; N1 (and DTM) required, anywhere or before the next BEG
ConditionalInputs ==
    { [rule_id |-> "CO_BEG", severity |-> "WARNING",
       condition |-> [if_segment |-> sBEG, if_element |-> [str |-> <<"0", "1">>]] @@ mode,
       then |-> [required_segments |-> req] @@ loop @@ el] :
        mode \in {[if_value |-> vSA], [if_value_exists |-> TRUE],
                  [if_value |-> vSA, if_value_exists |-> TRUE]},
        req \in {<<sN1>>, <<sN1, sDTM>>},
        loop \in OneOrNone({[within_loop |-> sBEG]}),
        el \in OneOrNone({[required_element |-> [segment |-> sBEG, element |-> [int |-> 2]]]}) }

ConditionalDocs ==
    { Document(segs) :
        segs \in SeqsUpTo({<<sBEG, vSA>>, <<sBEG, vNE>>, <<sBEG, <<>>>>, <<sN1>>, <<sDTM>>}, MaxDocSegments) }

\* a trigger followed by n DTM segments and then the required N1
MaxFollowers == 11

RECURSIVE Followers(_)
Followers(n) == IF n = 0 THEN <<>> ELSE Append(Followers(n - 1), <<sDTM>>)

LongDocs == { Document(<< <<sBEG, vSA>> >> \o Followers(n) \o tail) :
                n \in 0..MaxFollowers, tail \in {<<>>, << <<sN1>> >>, << <<sN1>>, <<sBEG, vSA>> >>} }

LoopInputs ==
    { [rule_id |-> "CO_LOOP", severity |-> "ERROR",
       condition |-> [if_segment |-> sBEG, if_element |-> [str |-> <<"0", "1">>], if_value_exists |-> TRUE],
       then |-> [required_segments |-> <<sN1>>, within_loop |-> sBEG]] }

\* element_match and element_value_exists rules on BEG01 and N101
MatchInputs ==
    { [rule_id |-> "X_MATCH", severity |-> "ERROR",
       validation_logic |-> [type |-> "element_match",
                             match_pairs |-> <<[segment_1 |-> sBEG, element_1 |-> [int |-> 1],
                                                segment_2 |-> sN1, element_2 |-> [str |-> <<"0", "1">>]]>>]] }

ExistsInputs ==
    { [rule_id |-> "X_EXISTS", severity |-> "ERROR",
       validation_logic |-> [type |-> "element_value_exists", segment_id |-> sN1,
                             element_position |-> [int |-> 1], required_value |-> vSA] @@ msg] :
        msg \in OneOrNone({[message |-> "An N1 with qualifier SA is required"]}) }

CrossDocs ==
    { Document(segs) :
        segs \in SeqsUpTo({<<sBEG, vSA>>, <<sBEG, vNE>>, <<sBEG>>, <<sN1, vSA>>, <<sN1, vNE>>, <<sN1>>},
                          MaxDocSegments) }

InitEvaluate ==
    /\ CollectorIdle
    /\ LoaderIdle
    /\ ParserIdle
    /\ collectors = <<>>
    /\ engine = [error_collector |-> 0]
    /\ run = NoRun
    /\ threads = <<>>
    /\ \/ /\ parsed_edi \in RequiredDocs
          /\ \E r \in RequiredInputs : rules \in {[required_segments |-> <<r>>],
                                                  [required_segments |-> <<RequiredN1, r>>]}
       \/ /\ parsed_edi \in ElementDocs
          /\ \E r \in ElementInputs : rules = [element_rules |-> <<r>>]
       \/ /\ parsed_edi \in CountDocs
          /\ \E r \in CountInputs : rules = [cross_segment_rules |-> <<r>>]
       \/ /\ parsed_edi \in CrossDocs
          /\ \E r \in MatchInputs \cup ExistsInputs : rules = [cross_segment_rules |-> <<r>>]
       \/ /\ parsed_edi \in ConditionalDocs
          /\ \E r \in ConditionalInputs : rules = [conditional_rules |-> <<r>>]
       \/ /\ parsed_edi \in LongDocs
          /\ \E r \in LoopInputs : rules = [conditional_rules |-> <<r>>]

\* validator = Validator(ErrorCollector()); validator.validate(parsed_edi, rule_list)
Evaluated(st) ==
    /\ collectors' = <<st.c>>
    /\ run' = [run EXCEPT !.pc = IF st.raised THEN "raised" ELSE "evaluated", !.validators = 1]
    /\ UNCHANGED <<parsed_edi, rules, engine, threads, collectorVars, loaderVars, parserVars>>

EvaluateRequired ==
    /\ run.pc = "idle"
    /\ Has(rules, "required_segments")
    /\ Evaluated(RequiredSegmentValidator_validate(NewCollector, parsed_edi, rules.required_segments))

EvaluateElement ==
    /\ run.pc = "idle"
    /\ Has(rules, "element_rules")
    /\ Evaluated(ElementValidator_validate(NewCollector, parsed_edi, rules.element_rules))

EvaluateCross ==
    /\ run.pc = "idle"
    /\ Has(rules, "cross_segment_rules")
    /\ Evaluated(CrossSegmentValidator_validate(NewCollector, parsed_edi, rules.cross_segment_rules))

EvaluateConditional ==
    /\ run.pc = "idle"
    /\ Has(rules, "conditional_rules")
    /\ Evaluated(ConditionalRuleValidator_validate(NewCollector, parsed_edi, rules.conditional_rules))

NextEvaluate == EvaluateRequired \/ EvaluateElement \/ EvaluateCross \/ EvaluateConditional

SpecEvaluate == InitEvaluate /\ [][NextEvaluate]_vars

\* the rule list given to the evaluator that ran, and the issues it reported
EvaluatedRules(key) == IF run.pc = "evaluated" /\ Has(rules, key) THEN rules[key] ELSE <<>>
Issues == IF collectors = <<>> THEN <<>> ELSE get_all_errors(collectors[1])

Tagged(issue, tag) == Len(issue.expected_value) > 0 /\ issue.expected_value[1] = tag

IssuesOf(rule, tag) == {k \in DOMAIN Issues : Issues[k].rule_id = rule.rule_id /\ Tagged(Issues[k], tag)}

\* positions of the document's segments a required-segment rule counts
FilterHolds(segment, filter) ==
    LET p == PyInt(filter.position).value
    IN  p < Len(segment.elements) /\ segment.elements[p + 1] = filter.value

Counted(rule) ==
    LET filters == Get(rule, "element_filters", <<>>)
    IN  {i \in DOMAIN parsed_edi.segments :
           /\ parsed_edi.segments[i].segment_id = rule.segment_id
           /\ \A f \in DOMAIN filters : FilterHolds(parsed_edi.segments[i], filters[f])}

\* C14: a required-segment rule whose matching count is below its minimum
\* gets exactly one minimum issue, with actual_value the count as a string
\* ("0" for an absent segment), the rule's only issue unless its maximum is
\* exceeded too; a count at or above the minimum gets no minimum issue
C14_RequiredMinimum ==
    \A r \in DOMAIN EvaluatedRules("required_segments") :
      LET rule == rules.required_segments[r]
          count == Cardinality(Counted(rule))
      IN  IF count < rule.min_occurrences
          THEN /\ Cardinality(IssuesOf(rule, "min ")) = 1
               /\ \A k \in IssuesOf(rule, "min ") :
                    /\ Issues[k].actual_value = Str(count)
                    /\ count = 0 => Issues[k].actual_value = <<"0">>
               /\ (~Has(rule, "max_occurrences") \/ count <= rule.max_occurrences)
                    => Cardinality({k \in DOMAIN Issues : Issues[k].rule_id = rule.rule_id}) = 1
          ELSE IssuesOf(rule, "min ") = {}

\* one BEG matches the element filter of a rule that needs two, another BEG does not
C14_Witness ==
    /\ run.pc = "evaluated"
    /\ Has(rules, "required_segments")
    /\ \E r \in DOMAIN rules.required_segments :
         /\ Has(rules.required_segments[r], "element_filters")
         /\ rules.required_segments[r].min_occurrences = 2
         /\ Cardinality(Counted(rules.required_segments[r])) = 1
         /\ Cardinality({i \in DOMAIN parsed_edi.segments : parsed_edi.segments[i].segment_id = sBEG}) = 2
         /\ Cardinality(IssuesOf(rules.required_segments[r], "min ")) = 1

\* the line of the first excess occurrence: the counted segment with exactly
\* max_occurrences counted segments before it
FirstExcess(rule) ==
    {i \in Counted(rule) : Cardinality({j \in Counted(rule) : j < i}) = rule.max_occurrences}

\* C15: a required-segment rule whose matching count exceeds its maximum gets
\* exactly one maximum issue, located at the line of the first excess
\* occurrence; a count within the maximum gets no maximum issue
C15_RequiredMaximum ==
    \A r \in DOMAIN EvaluatedRules("required_segments") :
      LET rule == rules.required_segments[r]
      IN  Has(rule, "max_occurrences") =>
            IF Cardinality(Counted(rule)) > rule.max_occurrences
            THEN /\ Cardinality(IssuesOf(rule, "max ")) = 1
                 /\ \A k \in IssuesOf(rule, "max ") :
                      \E i \in FirstExcess(rule) : Issues[k].line_number = parsed_edi.segments[i].line
            ELSE IssuesOf(rule, "max ") = {}

\* the first excess occurrence is the third segment of the document although the maximum is 1
C15_Witness ==
    /\ run.pc = "evaluated"
    /\ Has(rules, "required_segments")
    /\ \E r \in DOMAIN rules.required_segments :
         /\ Has(rules.required_segments[r], "max_occurrences")
         /\ rules.required_segments[r].max_occurrences = 1
         /\ FirstExcess(rules.required_segments[r]) = {3}
         /\ \E k \in IssuesOf(rules.required_segments[r], "max ") : Issues[k].line_number = 3

\* the occurrences an element rule applies to: segments with the rule's id
\* whose conditional, if the rule has one, is met
ConditionalMet(segment, conditional) ==
    LET p == PyInt(conditional.if_element).value
    IN  p < Len(segment.elements) /\ Strip(segment.elements[p + 1]) = conditional.equals

Applicable(rule) ==
    {i \in DOMAIN parsed_edi.segments :
       /\ parsed_edi.segments[i].segment_id = rule.segment_id
       /\ Has(rule, "conditional") => ConditionalMet(parsed_edi.segments[i], rule.conditional)}

ElementMissing(rule, i) == rule.element_position.int >= Len(parsed_edi.segments[i].elements)

ElementValue(rule, i) == Strip(parsed_edi.segments[i].elements[rule.element_position.int + 1])

MarkedRequired(rule) == Has(rule.validations, "required") /\ rule.validations.required = TRUE

IssuesAt(rule, i) ==
    {k \in DOMAIN Issues : Issues[k].rule_id = rule.rule_id /\ Issues[k].line_number = parsed_edi.segments[i].line}

\* C16: every occurrence an element rule applies to whose required element
\* is missing or empty gets exactly one issue, none of them a length,
\* allowed-value or pattern issue
C16_RequiredElement ==
    \A r \in DOMAIN EvaluatedRules("element_rules") :
      LET rule == rules.element_rules[r]
      IN  \A i \in Applicable(rule) :
            (MarkedRequired(rule) /\ (ElementMissing(rule, i) \/ ElementValue(rule, i) = <<>>))
              => /\ Cardinality(IssuesAt(rule, i)) = 1
                 /\ \A k \in IssuesAt(rule, i) :
                      /\ Issues[k].expected_value = NoneStr
                      /\ Issues[k].element_position = rule.element_position.int

\* a rule with a conditional, a minimum length and a pattern: one applicable
\* occurrence with an empty required element, one occurrence without the element
C16_Witness ==
    /\ run.pc = "evaluated"
    /\ Has(rules, "element_rules")
    /\ \E r \in DOMAIN rules.element_rules :
         /\ Has(rules.element_rules[r], "conditional")
         /\ MarkedRequired(rules.element_rules[r])
         /\ Has(rules.element_rules[r].validations, "min_length")
         /\ Has(rules.element_rules[r].validations, "regex")
         /\ \E i \in Applicable(rules.element_rules[r]) :
              /\ ~ElementMissing(rules.element_rules[r], i)
              /\ ElementValue(rules.element_rules[r], i) = <<>>
              /\ Cardinality(IssuesAt(rules.element_rules[r], i)) = 1
    /\ Len(Issues) = 1
    /\ Len(parsed_edi.segments) = 2

\* the four format checks of a rule, by the tag of the issue each one adds
FormatTags == {"min length ", "max length ", "one of ", "pattern: "}

FormatViolated(rule, value, tag) ==
    CASE tag = "min length " -> Has(rule.validations, "min_length") /\ Len(value) < rule.validations.min_length
      [] tag = "max length " -> Has(rule.validations, "max_length") /\ Len(value) > rule.validations.max_length
      [] tag = "one of "     -> Has(rule.validations, "allowed_values")
                                  /\ \A a \in DOMAIN rule.validations.allowed_values :
                                       rule.validations.allowed_values[a] # value
      [] tag = "pattern: "   -> Has(rule.validations, "regex")
                                  /\ \E c \in DOMAIN value : ~IsDigit(value[c])

\* C17: for a non-empty value each violated format check adds its own issue
\* for the occurrence and each satisfied one adds none, whatever the other
\* checks find; an empty or missing element that is not required adds nothing
C17_FormatChecksIndependent ==
    \A r \in DOMAIN EvaluatedRules("element_rules") :
      LET rule == rules.element_rules[r]
      IN  \A i \in Applicable(rule) :
            IF ElementMissing(rule, i) \/ ElementValue(rule, i) = <<>>
            THEN ~MarkedRequired(rule) => IssuesAt(rule, i) = {}
            ELSE /\ \A tag \in FormatTags :
                      Cardinality({k \in IssuesAt(rule, i) : Tagged(Issues[k], tag)})
                        = IF FormatViolated(rule, ElementValue(rule, i), tag) THEN 1 ELSE 0
                 /\ Cardinality(IssuesAt(rule, i))
                      = Cardinality({tag \in FormatTags : FormatViolated(rule, ElementValue(rule, i), tag)})

\* one occurrence violates all four checks, another of the same document only one
C17_Witness ==
    /\ run.pc = "evaluated"
    /\ Has(rules, "element_rules")
    /\ \E r \in DOMAIN rules.element_rules :
         \E i, j \in Applicable(rules.element_rules[r]) :
           /\ Cardinality(IssuesAt(rules.element_rules[r], i)) = 4
           /\ Cardinality(IssuesAt(rules.element_rules[r], j)) = 1
           /\ ~ElementMissing(rules.element_rules[r], j)
           /\ ElementValue(rules.element_rules[r], j) # <<>>

\* the count_match rule's source count and the declared value of a target occurrence
SourceCount(logic) ==
    Cardinality({i \in DOMAIN parsed_edi.segments : parsed_edi.segments[i].segment_id = logic.source_segment})

Targets(logic) ==
    {i \in DOMAIN parsed_edi.segments :
       /\ parsed_edi.segments[i].segment_id = logic.target_segment
       /\ logic.target_element.int < Len(parsed_edi.segments[i].elements)}

Declared(logic, i) == Strip(parsed_edi.segments[i].elements[logic.target_element.int + 1])

Numeric(t) == t # <<>> /\ \A c \in DOMAIN t : IsDigit(t[c])

\* C18: a target occurrence whose declared count is numeric and differs from
\* the source count gets exactly one mismatch issue with expected_value the
\* source count and actual_value the declared text; a non-numeric declared
\* value gets one invalid-value issue and no exception; an equal one gets none
C18_CountMatch ==
    (Has(rules, "cross_segment_rules") /\ run.pc # "idle") =>
      /\ run.pc = "evaluated"
      /\ \A r \in DOMAIN rules.cross_segment_rules :
           LET rule == rules.cross_segment_rules[r]
               logic == rule.validation_logic
               at(i) == {k \in DOMAIN Issues : Issues[k].rule_id = rule.rule_id
                                                /\ Issues[k].line_number = parsed_edi.segments[i].line}
           IN  logic.type = "count_match" => \A i \in Targets(logic) :
                 IF ~Numeric(Declared(logic, i))
                 THEN /\ Cardinality(at(i)) = 1
                      /\ \A k \in at(i) :
                           /\ Issues[k].expected_value = NoneStr
                           /\ Issues[k].actual_value = Declared(logic, i)
                           /\ Issues[k].message[Len(Issues[k].message)] = " contains invalid count value"
                 ELSE IF DigitsValue(Declared(logic, i), 0) # SourceCount(logic)
                 THEN /\ Cardinality(at(i)) = 1
                      /\ \A k \in at(i) :
                           /\ Issues[k].expected_value = Str(SourceCount(logic))
                           /\ Issues[k].actual_value = Declared(logic, i)
                           /\ (SourceCount(logic) = 2 /\ Declared(logic, i) = <<"3">>)
                                => Issues[k].expected_value = <<"2">> /\ Issues[k].actual_value = <<"3">>
                 ELSE at(i) = {}

\* two PO1 segments and a CTT declaring 3: one issue, expected "2", actual "3"
C18_Witness ==
    /\ run.pc = "evaluated"
    /\ Has(rules, "cross_segment_rules")
    /\ Len(parsed_edi.segments) = 3
    /\ parsed_edi.segments[1].segment_id = sPO1
    /\ parsed_edi.segments[2].segment_id = sPO1
    /\ parsed_edi.segments[3].elements = <<sCTT, <<"3">>>>
    /\ Len(Issues) = 1
    /\ Issues[1].expected_value = <<"2">>
    /\ Issues[1].actual_value = <<"3">>
    /\ Issues[1].line_number = 3

(***************************************************************************)
(* SpecQuery: get_rules_by_segment on a merged ruleset                     *)
(***************************************************************************)
MaxQueryRules == 3

\* RuleLoader.get_rules_by_segment: the rules of one category list whose
\* segment_id is the queried one
BySegmentId(h, refs, segment_id) ==
    SelectSeq(refs, LAMBDA ref : Get(h[ref], "segment_id", NoneStr) = segment_id)

\* the conditional rules whose condition.if_segment is the queried one
ByIfSegment(h, refs, segment_id) ==
    SelectSeq(refs, LAMBDA ref : Get(Get(h[ref], "condition", <<>>), "if_segment", NoneStr) = segment_id)

\* RuleLoader.get_rules_by_segment
get_rules_by_segment(L, segment_id) ==
    IF L.merged = <<>> THEN <<>>
    ELSE BySegmentId(L.heap, Get(L.merged, "required_segments", <<>>), segment_id)
           \o BySegmentId(L.heap, Get(L.merged, "element_rules", <<>>), segment_id)
           \o ByIfSegment(L.heap, Get(L.merged, "conditional_rules", <<>>), segment_id)

QueryPool ==
    { [cat |-> "required_segments",
       rule |-> [rule_id |-> "REQ_BEG", severity |-> "ERROR", description |-> "BEG is required",
                 segment_id |-> sBEG, min_occurrences |-> 1]],
      [cat |-> "required_segments", rule |-> RequiredN1],
      [cat |-> "element_rules",
       rule |-> [rule_id |-> "EL_BEG01", severity |-> "ERROR", segment_id |-> sBEG,
                 element_position |-> [int |-> 1], validations |-> [required |-> TRUE]]],
      [cat |-> "conditional_rules",
       rule |-> [rule_id |-> "CO_N1", severity |-> "WARNING",
                 condition |-> [if_segment |-> sBEG, if_element |-> [str |-> <<"0", "1">>], if_value |-> vSA],
                 then |-> [required_segments |-> <<sN1>>]]],
      [cat |-> "cross_segment_rules",
       rule |-> [rule_id |-> "X_CTT", severity |-> "ERROR",
                 validation_logic |-> [type |-> "count_match", source_segment |-> sPO1,
                                       target_segment |-> sCTT, target_element |-> [int |-> 1]]]] }

SegmentIdInputs == {sBEG, sN1, sCTT, sDTM}

\* a loader whose merged ruleset lists the given rules, or one that has not loaded yet
InitQuery ==
    /\ CollectorIdle
    /\ ValidateIdle
    /\ ParserIdle
    /\ core_rules = NoRuleset
    /\ document_rules = NoRuleset
    /\ retailer_rules = NoRuleset
    /\ call = NoCall
    /\ \/ heap = <<>> /\ merged_rules = NoRuleset
       \/ \E entries \in SeqsUpTo(QueryPool, MaxQueryRules) :
            LET m == AllocTier(<<>>, entries, 1, EmptyTier(<<"merged">>))
            IN  heap = m.heap /\ merged_rules = m.tier

\* loader.get_rules_by_segment(segment_id)
GetRulesBySegment ==
    /\ call.op = "none"
    /\ \E segment_id \in SegmentIdInputs :
         call' = [op |-> "get_rules_by_segment", segment_id |-> segment_id, outcome |-> "ok",
                  error |-> <<>>, n |-> 1, returned |-> get_rules_by_segment(Loader, segment_id)]
    /\ UNCHANGED <<heap, core_rules, document_rules, retailer_rules, merged_rules,
                   collectorVars, validateVars, parserVars>>

NextQuery == GetRulesBySegment

SpecQuery == InitQuery /\ [][NextQuery]_vars

\* the rule objects of the merged ruleset, over the four categories
MergedRefs ==
    UNION {Range(Get(merged_rules, cat, <<>>)) :
             cat \in {"required_segments", "element_rules", "conditional_rules", "cross_segment_rules"}}

\* a rule references a segment id as its target or as its conditional trigger
References(rule, segment_id) ==
    \/ Get(rule, "segment_id", NoneStr) = segment_id
    \/ Get(Get(rule, "condition", <<>>), "if_segment", NoneStr) = segment_id
    \/ Get(Get(rule, "validation_logic", <<>>), "target_segment", NoneStr) = segment_id

\* C19 as stated: get_rules_by_segment returns exactly the rules of the four
\* categories of the merged ruleset that reference the segment id
C19_Original ==
    call.op = "get_rules_by_segment" =>
      Range(call.returned) = {ref \in MergedRefs : References(heap[ref], call.segment_id)}

(***************************************************************************)
(* SpecInterleaved: two validate calls on one engine, interleaved          *)
(***************************************************************************)
RequiredNoSeverity ==
    [rule_id |-> "REQ_DTM", description |-> "DTM is required", segment_id |-> sDTM,
     min_occurrences |-> 1]

ElementBadPosition ==
    [rule_id |-> "EL_BAD", severity |-> "ERROR", segment_id |-> sBEG,
     element_position |-> [str |-> <<"x">>], validations |-> [required |-> TRUE]]

\* the arguments of a validate call
CallInputs ==
    { [parsed_edi |-> Document(<<>>), rules |-> [required_segments |-> <<RequiredN1>>]],
      [parsed_edi |-> Document(<<>>), rules |-> [required_segments |-> <<RequiredNoSeverity>>]],
      [parsed_edi |-> Document(<< <<sBEG, vSA>> >>),
       rules |-> [required_segments |-> <<RequiredN1>>, element_rules |-> <<ElementBadPosition>>]] }

Callers == {1, 2}

\* a caller about to enter validate(parsed_edi, rules): created is the
\* collector its call makes, validators the collectors its four validators hold
Caller(input) ==
    [pc |-> "idle", k |-> 0, created |-> 0, validators |-> <<0, 0, 0, 0>>,
     parsed_edi |-> input.parsed_edi, rules |-> input.rules, result |-> 0]

InitInterleaved ==
    /\ CollectorIdle
    /\ LoaderIdle
    /\ ParserIdle
    /\ parsed_edi = <<>>
    /\ rules = <<>>
    /\ collectors = <<>>
    /\ engine = [error_collector |-> 0]
    /\ run = NoRun
    /\ threads \in [Callers -> {Caller(input) : input \in CallInputs}]

\* validate, line 213: self.error_collector = ErrorCollector()
ThreadStart(t) ==
    /\ threads[t].pc = "idle"
    /\ collectors' = Append(collectors, NewCollector)
    /\ engine' = [engine EXCEPT !.error_collector = Len(collectors) + 1]
    /\ threads' = [threads EXCEPT ![t].pc = "construct", ![t].k = 1, ![t].created = Len(collectors) + 1]
    /\ UNCHANGED <<parsed_edi, rules, run, collectorVars, loaderVars, parserVars>>

\* validate, lines 216-219: the next validator is built with self.error_collector
ThreadConstruct(t) ==
    /\ threads[t].pc = "construct"
    /\ threads' = [threads EXCEPT ![t].validators[threads[t].k] = engine.error_collector,
                                  ![t].k = IF threads[t].k < Len(categories) THEN @ + 1 ELSE 1,
                                  ![t].pc = IF threads[t].k < Len(categories) THEN @ ELSE "category"]
    /\ UNCHANGED <<parsed_edi, rules, collectors, engine, run, collectorVars, loaderVars, parserVars>>

\* validate, lines 227-253: the next _validate_category call
ThreadCategory(t) ==
    /\ threads[t].pc = "category"
    /\ collectors' = _validate_category(collectors, threads[t].validators[threads[t].k],
                                        engine.error_collector, threads[t].parsed_edi,
                                        Get(threads[t].rules, categories[threads[t].k].key, <<>>),
                                        categories[threads[t].k])
    /\ threads' = [threads EXCEPT ![t].k = IF threads[t].k < Len(categories) THEN @ + 1 ELSE @,
                                  ![t].pc = IF threads[t].k < Len(categories) THEN @ ELSE "return"]
    /\ UNCHANGED <<parsed_edi, rules, engine, run, collectorVars, loaderVars, parserVars>>

\* validate, lines 268-273: ValidationResult(error_collector=self.error_collector, ...)
ThreadReturn(t) ==
    /\ threads[t].pc = "return"
    /\ threads' = [threads EXCEPT ![t].pc = "done", ![t].result = engine.error_collector]
    /\ UNCHANGED <<parsed_edi, rules, collectors, engine, run, collectorVars, loaderVars, parserVars>>

NextInterleaved ==
    \E t \in Callers : ThreadStart(t) \/ ThreadConstruct(t) \/ ThreadCategory(t) \/ ThreadReturn(t)

SpecInterleaved == InitInterleaved /\ [][NextInterleaved]_vars

\* the collector of a validate call that runs with no other call in progress
RECURSIVE SoloFrom(_, _, _, _)
SoloFrom(cs, k, parsed, ruleset) ==
    IF k > Len(categories) THEN cs[1]
    ELSE SoloFrom(_validate_category(cs, 1, 1, parsed, Get(ruleset, categories[k].key, <<>>), categories[k]),
                  k + 1, parsed, ruleset)

Solo(parsed, ruleset) == SoloFrom(<<NewCollector>>, 1, parsed, ruleset)

\* C20 as stated: each returned result holds the collector its own call
\* created, and once both calls have returned that collector holds exactly
\* the issues of its own call
C20_Original ==
    /\ \A t \in Callers : threads # <<>> /\ threads[t].pc = "done" => threads[t].result = threads[t].created
    /\ (threads # <<>> /\ \A t \in Callers : threads[t].pc = "done")
         => \A t \in Callers :
              collectors[threads[t].created] = Solo(threads[t].parsed_edi, threads[t].rules)

\* ---- validate and its arguments ----
\* C21: no step of validate changes the parsed document or the ruleset,
\* whatever is reported and whether or not an evaluator raises
C21_ArgumentsUnchanged == [][parsed_edi' = parsed_edi /\ rules' = rules]_vars

\* a validate call has returned, on a document with segments, a result that
\* holds both a system issue of a raising evaluator and an issue of a rule
C21_Witness ==
    /\ run.results # <<>>
    /\ parsed_edi.segments # <<>>
    /\ \E k \in DOMAIN CategoryKeys : Raises(k) /\ SystemErrorsOf(Result(1), k) # {}
    /\ \E n \in DOMAIN get_all_errors(Result(1)) : get_all_errors(Result(1))[n].rule_id # "SYSTEM_ERROR"

\* C29: every validate call makes a new, empty collector: the results of
\* different calls hold different collectors, a later result holds the issues
\* of its own call only, and no step changes the lists of a returned result
C29_FreshCollector ==
    /\ [](\A i, j \in DOMAIN run.results :
            /\ i # j => run.results[i] # run.results[j]
            /\ \A list \in Lists : Result(i)[list] = PartsBefore(5, list))
    /\ [][run.pc = "idle" /\ run'.pc = "category"
            => /\ run'.validators \notin DOMAIN collectors
               /\ collectors'[run'.validators] = NewCollector
               /\ engine'.error_collector = run'.validators]_vars
    /\ [][\A i \in DOMAIN run.results : collectors'[run.results[i]] = collectors[run.results[i]]]_vars

\* a second validate call has returned on the engine, and the first result holds issues
C29_Witness ==
    /\ Len(run.results) = 2
    /\ get_all_errors(Result(1)) # <<>>
    /\ get_all_errors(Result(2)) # <<>>

\* ---- conditional rules ----
\* the trigger occurrences of a conditional rule, and the window the rule's
\* then clause searches from one of them
Triggers(rule) ==
    {i \in DOMAIN parsed_edi.segments : parsed_edi.segments[i].segment_id = rule.condition.if_segment}

Window(rule, i) == SearchScope(parsed_edi.segments[i], parsed_edi.segments, rule.then)

\* the positions after trigger i and before the next loop-boundary segment
LoopPositions(rule, i) ==
    {j \in DOMAIN parsed_edi.segments :
       /\ j > i
       /\ \A b \in (i + 1)..j : parsed_edi.segments[b].segment_id # rule.then.within_loop}

\* C22 as stated: the window of a within_loop rule holds only segments after
\* the trigger and before the next loop-boundary segment, and never more than 10
C22_Original ==
    \A r \in DOMAIN EvaluatedRules("conditional_rules") :
      LET rule == rules.conditional_rules[r]
      IN  Has(rule.then, "within_loop") =>
            \A i \in Triggers(rule) :
              /\ \A n \in DOMAIN Window(rule, i) :
                   \E j \in LoopPositions(rule, i) : Window(rule, i)[n] = parsed_edi.segments[j]
              /\ Len(Window(rule, i)) <= 10

\* the stripped trigger element of occurrence i, <<>> when the segment has no such element
TriggerValue(rule, i) ==
    LET p == PyInt(rule.condition.if_element).value
    IN  IF p < Len(parsed_edi.segments[i].elements)
        THEN [present |-> TRUE, value |-> Strip(parsed_edi.segments[i].elements[p + 1])]
        ELSE [present |-> FALSE, value |-> <<>>]

LiteralHolds(rule, i) ==
    Has(rule.condition, "if_value") /\ TriggerValue(rule, i).present
      /\ TriggerValue(rule, i).value = rule.condition.if_value

ExistsHolds(rule, i) ==
    Has(rule.condition, "if_value_exists") /\ rule.condition.if_value_exists = TRUE
      /\ TriggerValue(rule, i).present /\ TriggerValue(rule, i).value # <<>>

\* where the then clause looks for the required segments
Scope(rule, i) ==
    IF Has(rule.then, "within_loop") THEN LoopPositions(rule, i) ELSE DOMAIN parsed_edi.segments

MissingIssues(rule, i, req_seg_id) ==
    {k \in DOMAIN Issues :
       /\ Issues[k].rule_id = rule.rule_id
       /\ Issues[k].line_number = parsed_edi.segments[i].line
       /\ Issues[k].context # <<>>
       /\ Issues[k].context.expected_segment = req_seg_id}

C24_Original ==
    \A r \in DOMAIN EvaluatedRules("conditional_rules") :
      LET rule == rules.conditional_rules[r]
      IN  \A i \in Triggers(rule) :
            LET met == IF Has(rule.condition, "if_value") THEN LiteralHolds(rule, i)
                       ELSE ExistsHolds(rule, i)
            IN  ~met => \A k \in DOMAIN Issues :
                          ~(Issues[k].rule_id = rule.rule_id
                              /\ Issues[k].line_number = parsed_edi.segments[i].line)

\* ---- cross-segment element rules ----
Occurrence(segment_id, n) ==
    CHOOSE i \in DOMAIN parsed_edi.segments :
      /\ parsed_edi.segments[i].segment_id = segment_id
      /\ Cardinality({j \in 1..(i - 1) : parsed_edi.segments[j].segment_id = segment_id}) = n - 1

OccurrenceCount(segment_id) ==
    Cardinality({i \in DOMAIN parsed_edi.segments : parsed_edi.segments[i].segment_id = segment_id})

Smaller(a, b) == IF a < b THEN a ELSE b

ElementAt(i, position) ==
    LET p == PyInt(position).value
    IN  IF p < Len(parsed_edi.segments[i].elements)
        THEN [present |-> TRUE, value |-> Strip(parsed_edi.segments[i].elements[p + 1])]
        ELSE [present |-> FALSE, value |-> <<>>]

\* the n-th pair of a match pair has both elements, and their values differ
Mismatched(pair, n) ==
    /\ ElementAt(Occurrence(pair.segment_1, n), pair.element_1).present
    /\ ElementAt(Occurrence(pair.segment_2, n), pair.element_2).present
    /\ ElementAt(Occurrence(pair.segment_1, n), pair.element_1).value
         # ElementAt(Occurrence(pair.segment_2, n), pair.element_2).value

RuleIssues(rule) == {k \in DOMAIN Issues : Issues[k].rule_id = rule.rule_id}

C26_ElementValueExists ==
    \A r \in DOMAIN EvaluatedRules("cross_segment_rules") :
      LET rule == rules.cross_segment_rules[r]
          logic == rule.validation_logic
      IN  logic.type = "element_value_exists" =>
            IF \E i \in DOMAIN parsed_edi.segments :
                 /\ parsed_edi.segments[i].segment_id = logic.segment_id
                 /\ ElementAt(i, logic.element_position).present
                 /\ ElementAt(i, logic.element_position).value = logic.required_value
            THEN RuleIssues(rule) = {}
            ELSE /\ Cardinality(RuleIssues(rule)) = 1
                 /\ \A k \in RuleIssues(rule) :
                      /\ Issues[k].expected_value = logic.required_value
                      /\ Issues[k].segment_id = logic.segment_id

\* the first N1 lacks the value and a later N1 carries it: no issue
C26_Witness ==
    /\ run.pc = "evaluated"
    /\ Has(rules, "cross_segment_rules")
    /\ rules.cross_segment_rules[1].validation_logic.type = "element_value_exists"
    /\ OccurrenceCount(sN1) = 2
    /\ parsed_edi.segments[Occurrence(sN1, 1)].elements = <<sN1, vNE>>
    /\ parsed_edi.segments[Occurrence(sN1, 2)].elements = <<sN1, vSA>>
    /\ Issues = <<>>

(***************************************************************************)
(* Retailer override directives: merges whose retailer tier lists up to    *)
(* MaxDirectives directives                                                *)
(***************************************************************************)
MaxDirectives == 2   \* override directives listed by the retailer tier

\* directives for rules of the rule categories (A, E), of an optional
\* category (BR) and for an id no tier defines (Z)
DirectivePool ==
    OverridePool \cup
    { [rule_id |-> "A", override_type |-> "severity_escalation", new_severity |-> "INFO"],
      [rule_id |-> "E", override_type |-> "add_allowed_value", new_allowed_values |-> <<vNE>>],
      [rule_id |-> "BR", override_type |-> "severity_escalation", new_severity |-> "ERROR"],
      [rule_id |-> "Z", override_type |-> "severity_escalation"],
      [rule_id |-> "Z", override_type |-> "add_allowed_value", new_allowed_values |-> <<vSA>>] }

\* the base tier lists both core rules, in either order
OverrideCore == {ce \in SeqsUpTo(CorePool, Cardinality(CorePool)) :
                    Len(ce) = Cardinality(CorePool) /\ Range(ce) = CorePool}
OverrideDoc == {<<>>} \cup {<<e>> : e \in {d \in DocPool : d.cat = "business_rules"}}
OverrideRet == {<<>>} \cup {<<e>> : e \in {r \in RetPool : r.cat = "element_rules"}}

InitOverride ==
    /\ ParserIdle
    /\ CollectorIdle
    /\ ValidateIdle
    /\ \E ce \in OverrideCore : \E de \in OverrideDoc : \E re \in OverrideRet :
       \E ov \in SeqsUpTo(DirectivePool, MaxDirectives) :
        /\ LET c == AllocTier(<<>>, ce, 1, EmptyTier(<<"x12_core">>))
               d == AllocTier(c.heap, de, 1, EmptyTier(<<"doc">>))
               r == AllocTier(d.heap, re, 1, EmptyTier(<<"retailer">>))
           IN  /\ heap = r.heap
               /\ core_rules = c.tier
               /\ document_rules = d.tier
               /\ retailer_rules = r.tier @@ [overrides |-> ov]
    /\ merged_rules = <<>>
    /\ call = NoCall

NextOverride == \E dt \in {D850, D856} : Merge(dt)

SpecOverride == InitOverride /\ [][NextOverride]_vars

\* the list-valued keys of a ruleset: the categories get_rule_by_id and
\* _apply_overrides walk
ListCategories(ruleset) == DOMAIN ruleset \ {"ruleset_info", "overrides"}

\* the retailer tier without its overrides array
WithoutOverrides(ret) == [k \in DOMAIN ret \ {"overrides"} |-> ret[k]]

\* the rule contents of a category as merged from the tiers alone
Undirected(cat) ==
    LET base == _merge_rulesets(heap, core_rules, document_rules,
                                WithoutOverrides(retailer_rules), call.doc_type, call.retailer)
    IN  CategoryContent(base.heap, base.merged, cat)

\* the directives of the given type that name the id, in listed order
Naming(id, type) ==
    SelectSeq(RetOverrides,
              LAMBDA ov : Get(ov, "rule_id", "") = id /\ Get(ov, "override_type", "") = type)

RECURSIVE Appended(_, _)
Appended(exts, i) ==
    IF i > Len(exts) THEN <<>>
    ELSE Get(exts[i], "new_allowed_values", <<>>) \o Appended(exts, i + 1)

\* rule m is rule b with the directives naming its id applied: the severity of
\* the last escalation, the allowed values extended in listed order, every
\* other field as it was
Directed(m, b) ==
    LET esc == Naming(Get(b, "rule_id", ""), "severity_escalation")
        ext == Naming(Get(b, "rule_id", ""), "add_allowed_value")
    IN  /\ DOMAIN m = DOMAIN b
        /\ \A k \in DOMAIN b \ {"severity", "vals"} : m[k] = b[k]
        /\ m.severity = IF esc = <<>> THEN b.severity ELSE Last(esc).new_severity
        /\ Has(b, "vals") =>
              /\ DOMAIN m.vals = DOMAIN b.vals
              /\ \A k \in DOMAIN b.vals \ {"allowed_values"} : m.vals[k] = b.vals[k]
              /\ Has(b.vals, "allowed_values") =>
                    m.vals.allowed_values = b.vals.allowed_values \o Appended(ext, 1)

CategoryDirected(cat) ==
    LET m == CategoryContent(heap, merged_rules, cat)
        b == Undirected(cat)
    IN  Len(m) = Len(b) /\ \A i \in DOMAIN m : Directed(m[i], b[i])

\* C27 as stated: after a merge every rule of every category of the merged
\* ruleset is the rule merged from the tiers with the directives naming its id
\* applied in listed order (severity of the last escalation, allowed values
\* appended), nothing else changed.
C27_Original ==
    MergeDone => \A cat \in ListCategories(merged_rules) : CategoryDirected(cat)

\* C27 on the four rule categories the directives are applied to: there the
\* merged rules are the rules of the tiers with the directives applied.
C27_RuleCategories ==
    MergeDone => \A cat \in CategorySet : CategoryDirected(cat)

\* two escalations of A with different severities were applied in order
C27_RuleCategoriesWitness ==
    /\ MergeDone
    /\ Len(Naming("A", "severity_escalation")) = 2
    /\ RetOverrides[1].new_severity # RetOverrides[2].new_severity
    /\ Len(WithId(CategoryContent(heap, merged_rules, "element_rules"), "A")) = 1

\* the rule ids of the ruleset merged from the tiers, in any list category
PresentIds ==
    LET base == _merge_rulesets(heap, core_rules, document_rules,
                                WithoutOverrides(retailer_rules), call.doc_type, call.retailer)
    IN  UNION {IdsOf(CategoryContent(base.heap, base.merged, cat)) :
                  cat \in ListCategories(base.merged)}

AbsentId(ov) == Has(ov, "rule_id") /\ ov.rule_id # "" /\ ov.rule_id \notin PresentIds

\* the retailer tier without the directives that name an absent id
WithoutAbsent(ret) ==
    [k \in DOMAIN ret |->
        IF k = "overrides" THEN SelectSeq(ret[k], LAMBDA ov : ~AbsentId(ov)) ELSE ret[k]]

\* C28: a directive naming a rule id that no merged rule carries changes
\* nothing: the merge ends as it ends without that directive (it does not
\* fail because of it), and the merged ruleset holds the same rules with the
\* same contents, none created.
C28_AbsentIdNoOp ==
    call.op = "merge" =>
        LET without == _merge_rulesets(heap, core_rules, document_rules,
                                       WithoutAbsent(retailer_rules),
                                       call.doc_type, call.retailer)
        IN  /\ (call.outcome = "ok") = ~without.raised
            /\ MergeDone =>
                  /\ ListCategories(merged_rules) = ListCategories(without.merged)
                  /\ \A cat \in ListCategories(merged_rules) :
                        CategoryContent(heap, merged_rules, cat)
                            = CategoryContent(without.heap, without.merged, cat)

\* the merge went through directives that name the absent id Z, one of them an
\* escalation that carries no new severity, and returned
C28_Witness ==
    /\ MergeDone
    /\ \E i \in DOMAIN RetOverrides :
          AbsentId(RetOverrides[i]) /\ ~Has(RetOverrides[i], "new_severity")
             /\ RetOverrides[i].override_type = "severity_escalation"
    /\ \E i \in DOMAIN RetOverrides :
          AbsentId(RetOverrides[i]) /\ RetOverrides[i].override_type = "add_allowed_value"

(***************************************************************************)
(* The three lists of the collector                                        *)
(***************************************************************************)
\* the list an issue of the given severity belongs to
ListOf(severity) ==
    IF Upper(severity) = "ERROR" THEN "errors"
    ELSE IF Upper(severity) = "WARNING" THEN "warnings"
    ELSE "info"

\* C30: along any sequence of add_error and clear calls every list holds only
\* issues of its own severity class and len(collector) is the sum of the three
\* list lengths; an add_error puts the new issue at the end of the one list its
\* upper-cased severity selects and leaves the other two lists and the issues
\* already collected as they were, so the issues added since the last clear
\* stand in arrival order, each in exactly one list; a clear empties all three
\* lists; and adding an issue whose severity is neither ERROR nor WARNING
\* leaves is_compliant as it was.
C30_ListsPartitionIssues ==
    /\ [](/\ \A list \in Lists : \A i \in DOMAIN collector[list] :
                ListOf(collector[list][i].severity) = list
          /\ collector_len(collector)
                = Len(collector.errors) + Len(collector.warnings) + Len(collector.info))
    /\ [][ last_add'.op = "add_error" =>
             LET list == ListOf(last_add'.severity)
             IN  /\ Len(collector'[list]) = Len(collector[list]) + 1
                 /\ SubSeq(collector'[list], 1, Len(collector[list])) = collector[list]
                 /\ Last(collector'[list]).rule_id = last_add'.rule_id
                 /\ Last(collector'[list]).severity = Upper(last_add'.severity)
                 /\ \A other \in Lists \ {list} : collector'[other] = collector[other]
                 /\ collector_len(collector') = collector_len(collector) + 1
                 /\ (list = "info" =>
                        is_compliant(ValidationResult(collector'))
                            = is_compliant(ValidationResult(collector))) ]_vars
    /\ [][ last_add'.op = "clear" =>
             /\ \A list \in Lists : collector'[list] = <<>>
             /\ collector_len(collector') = 0 ]_vars

\* an issue of the unrecognised severity "fatal" was just added behind an
\* earlier info issue of another rule, the collector also holds a warning, and
\* the result is compliant
C30_Witness ==
    /\ last_add.op = "add_error"
    /\ last_add.severity = "fatal"
    /\ Len(collector.info) >= 2
    /\ Last(collector.info).severity = "FATAL"
    /\ collector.info[1].rule_id # Last(collector.info).rule_id
    /\ collector.info[1].severity = "INFO"
    /\ Len(collector.warnings) > 0
    /\ collector_len(collector) = Len(collector.info) + Len(collector.warnings)
    /\ is_compliant(ValidationResult(collector))

====
